---------------------------- MODULE Spec2Model ----------------------------
(***************************************************************************)
(* uBlock-Stylus-Converter (src/ublocktoCSS_pro.py): the filter parser,    *)
(* rule deduplication, the UserCSS generator, the filename sanitizer and   *)
(* the three export handlers (folder save, ZIP archive, Stylus JSON).      *)
(*                                                                         *)
(* A Python str is a sequence of one-character strings.  Text the program  *)
(* writes is a sequence of pieces: every literal of a format string is one *)
(* piece and every interpolated value is spliced in character by           *)
(* character.                                                              *)
(***************************************************************************)
EXTENDS Integers, Sequences, FiniteSets, TLC

VARIABLES
    text_input,   \* contents of the input text widget (a str)
    output_dir,   \* contents of the output folder variable (a str)
    files,        \* the output folder: file name -> text
    zip_file,     \* the archive at the chosen zip path: NoFile or its entries
    json_file,    \* the file at the chosen json path: NoFile or its contents
    status,       \* the last (message kind, status type) given to set_status
    report,       \* files_created / total_rules of the last folder save
    call,         \* the function or handler that ran last
    arg,          \* its argument, for the functions that take one
    ret           \* its return value, for the functions that return one

vars == <<text_input, output_dir, files, zip_file, json_file, status, report,
          call, arg, ret>>

-----------------------------------------------------------------------------
(* Bounds of the model.                                                    *)

MaxLines == 3        \* lines of a multi-line input text
MaxDomains == 2      \* comma-separated tokens before ## in a generated line
MaxRules == 3        \* length of a rule list given to dedupe / generate
MaxPieces == 3       \* pieces concatenated into a name given to sanitize
MaxPartial == 1      \* pieces of a file that reach the disk before a failed write

-----------------------------------------------------------------------------
(* Python str primitives.                                                  *)

\* str.isspace for the characters of the model
IsSpace(c) == c \in {" ", "\t", "\n"}

\* code points, for str comparison
Ord(c) ==
    CASE c = "\t" -> 9   [] c = "\n" -> 10  [] c = " " -> 32  [] c = "!" -> 33
      [] c = "#" -> 35   [] c = "$" -> 36   [] c = "(" -> 40  [] c = ")" -> 41
      [] c = "," -> 44   [] c = "-" -> 45   [] c = "." -> 46  [] c = "/" -> 47
      [] c = "1" -> 49   [] c = ":" -> 58   [] c = "@" -> 64  [] c = "^" -> 94
      [] c = "_" -> 95   [] c = "a" -> 97   [] c = "b" -> 98  [] c = "c" -> 99
      [] c = "d" -> 100  [] c = "e" -> 101  [] c = "h" -> 104 [] c = "i" -> 105
      [] c = "l" -> 108  [] c = "m" -> 109  [] c = "n" -> 110 [] c = "o" -> 111
      [] c = "p" -> 112  [] c = "r" -> 114  [] c = "s" -> 115 [] c = "t" -> 116
      [] c = "w" -> 119  [] c = "x" -> 120  [] c = "y" -> 121 [] c = "|" -> 124

\* str.isalpha / str.isdigit for the characters of the model
IsAlpha(c) == Ord(c) >= 97 /\ Ord(c) <= 122
IsDigit(c) == Ord(c) >= 48 /\ Ord(c) <= 57

\* s < t on str: lexicographic by code point
StrLess(s, t) ==
    \E i \in 1..(Len(t)) :
        /\ i <= Len(s) + 1
        /\ \A j \in 1..(i - 1) : s[j] = t[j]
        /\ \/ i = Len(s) + 1
           \/ (i <= Len(s) /\ Ord(s[i]) < Ord(t[i]))

\* s.startswith(p)
StartsWith(s, p) == Len(s) >= Len(p) /\ SubSeq(s, 1, Len(p)) = p

\* s[i:i+len(p)] == p  (i is 1-based)
OccursAt(s, p, i) == i >= 1 /\ i + Len(p) - 1 <= Len(s) /\ SubSeq(s, i, i + Len(p) - 1) = p

\* p in s
Contains(s, p) == \E i \in 1..Len(s) : OccursAt(s, p, i)

\* s.find(p) + 1: the first position of p in s, 0 when there is none
Find(s, p) ==
    IF Contains(s, p)
    THEN CHOOSE i \in 1..Len(s) : OccursAt(s, p, i) /\ \A j \in 1..(i - 1) : ~OccursAt(s, p, j)
    ELSE 0

\* s.lstrip(), s.rstrip(), s.strip()
LStrip(s) ==
    IF \A i \in 1..Len(s) : IsSpace(s[i]) THEN <<>>
    ELSE SubSeq(s, CHOOSE i \in 1..Len(s) : ~IsSpace(s[i]) /\ \A j \in 1..(i - 1) : IsSpace(s[j]), Len(s))

RStrip(s) ==
    IF \A i \in 1..Len(s) : IsSpace(s[i]) THEN <<>>
    ELSE SubSeq(s, 1, CHOOSE i \in 1..Len(s) : ~IsSpace(s[i]) /\ \A j \in (i + 1)..Len(s) : IsSpace(s[j]))

Strip(s) == LStrip(RStrip(s))

\* s.split(sep): every non-overlapping occurrence of sep, left to right
RECURSIVE Split(_, _)
Split(s, sep) ==
    LET i == Find(s, sep)
    IN  IF i = 0 THEN <<s>>
        ELSE <<SubSeq(s, 1, i - 1)>> \o Split(SubSeq(s, i + Len(sep), Len(s)), sep)

\* s.split(sep, 1)
Split1(s, sep) ==
    LET i == Find(s, sep)
    IN  IF i = 0 THEN <<s>>
        ELSE <<SubSeq(s, 1, i - 1), SubSeq(s, i + Len(sep), Len(s))>>

\* s.splitlines(): lines end at "\n"; no empty last line after a final "\n"
SplitLines(s) ==
    IF s = <<>> THEN <<>>
    ELSE LET parts == Split(s, <<"\n">>)
         IN  IF parts[Len(parts)] = <<>> THEN SubSeq(parts, 1, Len(parts) - 1) ELSE parts

\* s.replace(old, ""): every non-overlapping occurrence, left to right
RECURSIVE Remove(_, _)
Remove(s, old) ==
    LET i == Find(s, old)
    IN  IF i = 0 THEN s
        ELSE SubSeq(s, 1, i - 1) \o Remove(SubSeq(s, i + Len(old), Len(s)), old)

\* sep.join(parts)
RECURSIVE Join(_, _)
Join(parts, sep) ==
    IF parts = <<>> THEN <<>>
    ELSE IF Len(parts) = 1 THEN parts[1]
    ELSE parts[1] \o sep \o Join(Tail(parts), sep)

-----------------------------------------------------------------------------
(* Literals of the program.                                                *)

HASHES == <<"#", "#">>
STYLE_OPEN == <<":", "s", "t", "y", "l", "e", "(">>
HIDE_RULE == <<"d", "i", "s", "p", "l", "a", "y", ":", " ", "n", "o", "n", "e", " ",
          "!", "i", "m", "p", "o", "r", "t", "a", "n", "t">>

-----------------------------------------------------------------------------
(* parse_filters.                                                          *)

\* the four collections parse_filters starts from
EmptyParse ==
    [domain_map |-> <<>>, global_selectors |-> <<>>,
     invalid_lines |-> <<>>, skipped_lines |-> <<>>]

\* domain_map[domain].append(rule) on a defaultdict(list): a dict keeps its
\* keys in insertion order, so it is a sequence of (key, list) entries
MapAppend(dm, domain, rule) ==
    IF \E i \in 1..Len(dm) : dm[i].domain = domain
    THEN [i \in 1..Len(dm) |->
            IF dm[i].domain = domain
            THEN [dm[i] EXCEPT !.rules = Append(@, rule)]
            ELSE dm[i]]
    ELSE Append(dm, [domain |-> domain, rules |-> <<rule>>])

\* for domain in domains_part.split(','): domain_map[domain.strip()].append(rule)
RECURSIVE MapAppendAll(_, _, _)
\* (mutant: the rule is filed under the first domain of the list only)
MapAppendFirst(dm, domains, rule) ==
    IF domains = <<>> THEN dm
    ELSE MapAppend(dm, Strip(Head(domains)), rule)

MapAppendAll(dm, domains, rule) ==
    IF domains = <<>> THEN dm
    ELSE MapAppendAll(MapAppend(dm, Strip(Head(domains)), rule), Tail(domains), rule)

\* (mutant: a greedy group 1, r'^(.+):style\((.+)\)$', takes the last position)
StyleMatchLast(s) ==
    LET ok(i) == /\ OccursAt(s, STYLE_OPEN, i)
                 /\ s[Len(s)] = ")"
                 /\ i + Len(STYLE_OPEN) <= Len(s) - 1
                 /\ \A j \in 1..Len(s) : s[j] # "\n"
    IN  IF \E i \in 2..Len(s) : ok(i)
        THEN CHOOSE i \in 2..Len(s) : ok(i) /\ \A j \in (i + 1)..Len(s) : ~ok(j)
        ELSE 0

\* (mutant: group 2 may be empty, r'^(.+?):style\((.*)\)$')
StyleMatchEmptyGroup(s) ==
    LET ok(i) == /\ OccursAt(s, STYLE_OPEN, i)
                 /\ s[Len(s)] = ")"
                 /\ i + Len(STYLE_OPEN) <= Len(s)
                 /\ \A j \in 1..Len(s) : s[j] # "\n"
    IN  IF \E i \in 2..Len(s) : ok(i)
        THEN CHOOSE i \in 2..Len(s) : ok(i) /\ \A j \in 2..(i - 1) : ~ok(j)
        ELSE 0

\* re.match(r'^(.+?):style\((.+)\)$', s): the position of the ":style(" the
\* match uses, 0 when there is no match.  Group 1 is lazy, so it is the first
\* position that leaves a non-empty group 1 before it and a non-empty group 2
\* between it and a final ")".
StyleMatch(s) ==
    LET ok(i) == /\ OccursAt(s, STYLE_OPEN, i)
                 /\ s[Len(s)] = ")"
                 /\ i + Len(STYLE_OPEN) <= Len(s) - 1
                 /\ \A j \in 1..Len(s) : s[j] # "\n"
    IN  IF \E i \in 2..Len(s) : ok(i)
        THEN CHOOSE i \in 2..Len(s) : ok(i) /\ \A j \in 2..(i - 1) : ~ok(j)
        ELSE 0

\* style_match.group(1) and style_match.group(2)
StyleGroup1(s) == SubSeq(s, 1, StyleMatch(s) - 1)
StyleGroup2(s) == SubSeq(s, StyleMatch(s) + Len(STYLE_OPEN), Len(s) - 1)

\* (mutant: the two groups are taken as matched, without strip())
RuleOfUntrimmed(selector_part) ==
    IF Contains(selector_part, STYLE_OPEN)
    THEN <<StyleGroup1(selector_part), StyleGroup2(selector_part)>>
    ELSE <<selector_part, HIDE_RULE>>

\* the rule a selector part yields; only used where one is built
RuleOf(selector_part) ==
    IF Contains(selector_part, STYLE_OPEN)
    THEN <<Strip(StyleGroup1(selector_part)), Strip(StyleGroup2(selector_part))>>
    ELSE <<selector_part, HIDE_RULE>>

\* (mutant: a token that is empty after trimming is dropped)
AddRuleSkipsEmptyToken(acc, domains_part, rule) ==
    IF domains_part = <<>>
    THEN [acc EXCEPT !.global_selectors = Append(@, rule)]
    ELSE [acc EXCEPT !.domain_map =
            MapAppendAll(@, SelectSeq(Split(domains_part, <<",">>),
                                      LAMBDA t : Strip(t) # <<>>), rule)]

\* where the rule of a line goes: global_selectors, or every domain of the list
AddRule(acc, domains_part, rule) ==
    IF domains_part = <<>>
    THEN [acc EXCEPT !.global_selectors = Append(@, rule)]
    ELSE [acc EXCEPT !.domain_map = MapAppendAll(@, Split(domains_part, <<",">>), rule)]

\* (mutant: the "$" test on the text before "##" comes after the selector
\* checks)
ParseLineOptionsLast(acc, line_num, raw_line) ==
    LET line == Strip(raw_line)
        skip(reason) == [acc EXCEPT !.skipped_lines = Append(@, <<line_num, line, reason>>)]
        invalid(reason) == [acc EXCEPT !.invalid_lines = Append(@, <<line_num, line, reason>>)]
    IN  IF line = <<>> \/ StartsWith(line, <<"!">>) THEN acc
        ELSE IF \/ StartsWith(line, <<"|", "|">>)
                \/ StartsWith(line, <<"@", "@">>)
                \/ StartsWith(line, <<"/">>)
             THEN skip("Network filter")
        ELSE IF Contains(line, HASHES)
             THEN LET parts == Split1(line, HASHES)
                      domains_part == Strip(parts[1])
                      selector_part == Strip(parts[2])
                  IN  IF selector_part = <<>> THEN invalid("Empty selector")
                      ELSE IF /\ Contains(selector_part, STYLE_OPEN)
                              /\ StyleMatch(selector_part) = 0
                           THEN invalid("Invalid :style() syntax")
                      ELSE IF Contains(Split(line, HASHES)[1], <<"$">>)
                           THEN skip("Network filter with options")
                      ELSE AddRule(acc, domains_part, RuleOf(selector_part))
        ELSE IF Contains(line, <<"$">>) \/ StartsWith(line, <<"|">>)
             THEN skip("Network filter")
        ELSE invalid("Missing ## separator")

\* (mutant: a line without "##" that starts with "|" is invalid, not skipped)
ParseLineBarIsInvalid(acc, line_num, raw_line) ==
    LET line == Strip(raw_line)
        skip(reason) == [acc EXCEPT !.skipped_lines = Append(@, <<line_num, line, reason>>)]
        invalid(reason) == [acc EXCEPT !.invalid_lines = Append(@, <<line_num, line, reason>>)]
    IN  IF line = <<>> \/ StartsWith(line, <<"!">>) THEN acc
        ELSE IF \/ StartsWith(line, <<"|", "|">>)
                \/ StartsWith(line, <<"@", "@">>)
                \/ StartsWith(line, <<"/">>)
             THEN skip("Network filter")
        ELSE IF Contains(line, HASHES)
             THEN IF Contains(Split(line, HASHES)[1], <<"$">>)
                  THEN skip("Network filter with options")
                  ELSE LET parts == Split1(line, HASHES)
                           domains_part == Strip(parts[1])
                           selector_part == Strip(parts[2])
                       IN  IF selector_part = <<>> THEN invalid("Empty selector")
                           ELSE IF /\ Contains(selector_part, STYLE_OPEN)
                                   /\ StyleMatch(selector_part) = 0
                                THEN invalid("Invalid :style() syntax")
                           ELSE AddRule(acc, domains_part, RuleOf(selector_part))
        ELSE IF Contains(line, <<"$">>)
             THEN skip("Network filter")
        ELSE invalid("Missing ## separator")

\* (mutant: a line with an empty selector creates the keys of its domains,
\* as a read of domain_map[domain] on the defaultdict would)
ParseLineTouchesKeys(acc, line_num, raw_line) ==
    LET line == Strip(raw_line)
        skip(reason) == [acc EXCEPT !.skipped_lines = Append(@, <<line_num, line, reason>>)]
        invalid(reason) == [acc EXCEPT !.invalid_lines = Append(@, <<line_num, line, reason>>)]
        touch(dm, domain) ==
            IF \E i \in 1..Len(dm) : dm[i].domain = domain THEN dm
            ELSE Append(dm, [domain |-> domain, rules |-> <<>>])
    IN  IF line = <<>> \/ StartsWith(line, <<"!">>) THEN acc
        ELSE IF \/ StartsWith(line, <<"|", "|">>)
                \/ StartsWith(line, <<"@", "@">>)
                \/ StartsWith(line, <<"/">>)
             THEN skip("Network filter")
        ELSE IF Contains(line, HASHES)
             THEN IF Contains(Split(line, HASHES)[1], <<"$">>)
                  THEN skip("Network filter with options")
                  ELSE LET parts == Split1(line, HASHES)
                           domains_part == Strip(parts[1])
                           selector_part == Strip(parts[2])
                       IN  IF selector_part = <<>>
                           THEN [invalid("Empty selector") EXCEPT
                                    !.domain_map = touch(@, domains_part)]
                           ELSE IF /\ Contains(selector_part, STYLE_OPEN)
                                   /\ StyleMatch(selector_part) = 0
                                THEN invalid("Invalid :style() syntax")
                           ELSE AddRule(acc, domains_part, RuleOf(selector_part))
        ELSE IF Contains(line, <<"$">>) \/ StartsWith(line, <<"|">>)
             THEN skip("Network filter")
        ELSE invalid("Missing ## separator")

\* one iteration of the loop over the lines
ParseLine(acc, line_num, raw_line) ==
    LET line == Strip(raw_line)
        skip(reason) == [acc EXCEPT !.skipped_lines = Append(@, <<line_num, line, reason>>)]
        invalid(reason) == [acc EXCEPT !.invalid_lines = Append(@, <<line_num, line, reason>>)]
    IN  IF line = <<>> \/ StartsWith(line, <<"!">>) THEN acc
        ELSE IF \/ StartsWith(line, <<"|", "|">>)
                \/ StartsWith(line, <<"@", "@">>)
                \/ StartsWith(line, <<"/">>)
             THEN skip("Network filter")
        ELSE IF Contains(line, HASHES)
             THEN IF Contains(Split(line, HASHES)[1], <<"$">>)
                  THEN skip("Network filter with options")
                  ELSE LET parts == Split1(line, HASHES)
                           domains_part == Strip(parts[1])
                           selector_part == Strip(parts[2])
                       IN  IF selector_part = <<>> THEN invalid("Empty selector")
                           ELSE IF /\ Contains(selector_part, STYLE_OPEN)
                                   /\ StyleMatch(selector_part) = 0
                                THEN invalid("Invalid :style() syntax")
                           ELSE AddRule(acc, domains_part, RuleOf(selector_part))
        ELSE IF Contains(line, <<"$">>) \/ StartsWith(line, <<"|">>)
             THEN skip("Network filter")
        ELSE invalid("Missing ## separator")

RECURSIVE ParseLoop(_, _)
\* (mutant: the scan stops at the first invalid line)
ParseLoopAbort(lines, k) ==
    IF k = 0 THEN EmptyParse
    ELSE IF ParseLoop(lines, k - 1).invalid_lines # <<>> THEN ParseLoop(lines, k - 1)
    ELSE ParseLine(ParseLoop(lines, k - 1), k, lines[k])

\* the loop after k iterations: for line_num, line in enumerate(lines, 1)
ParseLoop(lines, k) ==
    IF k = 0 THEN EmptyParse
    ELSE ParseLine(ParseLoop(lines, k - 1), k, lines[k])

\* raw_text = text.strip(); the lines the loop runs over
InputLines(text) == SplitLines(Strip(text))

parse_filters(text) == ParseLoop(InputLines(text), Len(InputLines(text)))

-----------------------------------------------------------------------------
(* sanitize_filename.                                                      *)

WWW == <<"w", "w", "w", ".">>
HTTPS == <<"h", "t", "t", "p", "s", ":", "/", "/">>
HTTP == <<"h", "t", "t", "p", ":", "/", "/">>

\* c.isalpha() or c.isdigit() or c in (' ', '.', '_', '-')
SafeChar(c) == IsAlpha(c) \/ IsDigit(c) \/ c \in {" ", ".", "_", "-"}

\* (mutant: str.replace(old, '', 1), only the first occurrence goes)
RemoveOnce(s, old) ==
    IF Find(s, old) = 0 THEN s
    ELSE SubSeq(s, 1, Find(s, old) - 1) \o SubSeq(s, Find(s, old) + Len(old), Len(s))

SanitizeFirstOnly(filename) ==
    RStrip(SelectSeq(RemoveOnce(RemoveOnce(RemoveOnce(filename, WWW), HTTPS), HTTP), SafeChar))

sanitize_filename(filename) ==
    RStrip(SelectSeq(Remove(Remove(Remove(filename, WWW), HTTPS), HTTP), SafeChar))

-----------------------------------------------------------------------------
(* dedupe_rules.  A rule is the tuple (selector, css_properties).          *)

\* the loop of dedupe_rules: the first occurrence of every rule, in order
RECURSIVE Unique(_)
\* (mutant: seen holds selectors, so a selector keeps its first rule only)
UniqueBySelector(rules) ==
    IF rules = <<>> THEN <<>>
    ELSE LET front == Unique(SubSeq(rules, 1, Len(rules) - 1))
             last == rules[Len(rules)]
         IN  IF \E i \in 1..Len(front) : front[i][1] = last[1]
             THEN front ELSE Append(front, last)

Unique(rules) ==
    IF rules = <<>> THEN <<>>
    ELSE LET front == Unique(SubSeq(rules, 1, Len(rules) - 1))
             last == rules[Len(rules)]
         IN  IF \E i \in 1..Len(front) : front[i] = last
             THEN front ELSE Append(front, last)

\* (mutant: the key is the selector alone)
KeyLessBySelector(a, b) == StrLess(a[1], b[1])

\* key(a) < key(b) for key = lambda x: (x[1] != "display: none !important", x[0])
KeyLess(a, b) ==
    \/ a[2] = HIDE_RULE /\ b[2] # HIDE_RULE
    \/ (a[2] = HIDE_RULE) = (b[2] = HIDE_RULE) /\ StrLess(a[1], b[1])

\* sorted(rules, key=...): a stable sort; r goes after the elements whose key
\* is not greater than its own
InsertSorted(sorted, r) ==
    LET n == Cardinality({i \in 1..Len(sorted) : ~KeyLess(r, sorted[i])})
    IN  SubSeq(sorted, 1, n) \o <<r>> \o SubSeq(sorted, n + 1, Len(sorted))

RECURSIVE Sorted(_)
Sorted(rules) ==
    IF rules = <<>> THEN <<>>
    ELSE InsertSorted(Sorted(SubSeq(rules, 1, Len(rules) - 1)), rules[Len(rules)])

\* (mutant: the unique rules are returned in the order of the input)
DedupeKeepsOrder(rules) == Unique(rules)

dedupe_rules(rules) == Sorted(Unique(rules))

-----------------------------------------------------------------------------
(* generate_usercss.                                                       *)

HEADER_NAME == "/* ==UserStyle==\n@name           "
HEADER_REST == " - Cleanup\n@namespace      ublock-to-stylus-converter\n@version        1.0.0\n@description    Converted from uBlock Origin cosmetic filters\n@author         uBlock Converter\n@license        MIT\n==/UserStyle== */\n\n"
SELECTOR_SEP == ",\n    "
BLOCK_INDENT == "    "
BLOCK_OPEN == " {\n        "
BLOCK_CLOSE == ";\n    }"
BLOCK_SEP == "\n\n"
DOCUMENT_OPEN == "@-moz-document domain(\""
DOCUMENT_BODY == "\") {\n"
DOCUMENT_CLOSE == "\n}"

\* (mutant: every rule opens a group of its own)
GroupAppendNew(groups, rule) ==
    Append(groups, [css_props |-> rule[2], selectors |-> <<rule[1]>>])

\* css_groups[css_props].append(selector) on a defaultdict(list)
GroupAppend(groups, rule) ==
    IF \E i \in 1..Len(groups) : groups[i].css_props = rule[2]
    THEN [i \in 1..Len(groups) |->
            IF groups[i].css_props = rule[2]
            THEN [groups[i] EXCEPT !.selectors = Append(@, rule[1])]
            ELSE groups[i]]
    ELSE Append(groups, [css_props |-> rule[2], selectors |-> <<rule[1]>>])

\* for selector, css_props in rules: css_groups[css_props].append(selector)
RECURSIVE CssGroups(_)
CssGroups(rules) ==
    IF rules = <<>> THEN <<>>
    ELSE GroupAppend(CssGroups(SubSeq(rules, 1, Len(rules) - 1)), rules[Len(rules)])

\* one element of css_blocks
CssBlock(group) ==
    <<BLOCK_INDENT>> \o Join(group.selectors, <<SELECTOR_SEP>>) \o <<BLOCK_OPEN>>
        \o group.css_props \o <<BLOCK_CLOSE>>

\* all_rules = "\n\n".join(css_blocks)
AllRulesText(rules) ==
    Join([i \in 1..Len(CssGroups(rules)) |-> CssBlock(CssGroups(rules)[i])], <<BLOCK_SEP>>)

\* (mutant: the rule blocks are wrapped whatever is_global is)
GenerateAlwaysWrapped(name, rules, is_global) ==
    <<HEADER_NAME>> \o name \o <<HEADER_REST>> \o <<DOCUMENT_OPEN>> \o name
        \o <<DOCUMENT_BODY>> \o AllRulesText(rules) \o <<DOCUMENT_CLOSE>>

generate_usercss(name, rules, is_global) ==
    <<HEADER_NAME>> \o name \o <<HEADER_REST>> \o
    ( IF is_global THEN AllRulesText(rules)
      ELSE <<DOCUMENT_OPEN>> \o name \o <<DOCUMENT_BODY>> \o AllRulesText(rules)
             \o <<DOCUMENT_CLOSE>> )

-----------------------------------------------------------------------------
(* Output files: what convert_and_save and export_as_zip write.            *)

USER_CSS == <<".", "u", "s", "e", "r", ".", "c", "s", "s">>
GLOBAL_FILE == <<"G", "l", "o", "b", "a", "l", "_", "R", "u", "l", "e", "s">> \o USER_CSS
GLOBAL_NAME == <<"G", "l", "o", "b", "a", "l", " ", "R", "u", "l", "e", "s">>
PLACEHOLDER == <<"No folder selected...">>
OUT_DIR == <<"/out">>

\* the files one export writes, in the order of the loops: one per key of
\* domain_map, then the global file when there are global rules
DomainJob(entry) ==
    [filename |-> sanitize_filename(entry.domain) \o USER_CSS,
     content |-> generate_usercss(entry.domain, dedupe_rules(entry.rules), FALSE),
     rules |-> Len(dedupe_rules(entry.rules))]

GlobalJob(global_selectors) ==
    [filename |-> GLOBAL_FILE,
     content |-> generate_usercss(GLOBAL_NAME, dedupe_rules(global_selectors), TRUE),
     rules |-> Len(dedupe_rules(global_selectors))]

ExportJobs(parsed) ==
    [i \in 1..Len(parsed.domain_map) |-> DomainJob(parsed.domain_map[i])]
        \o (IF parsed.global_selectors # <<>>
            THEN <<GlobalJob(parsed.global_selectors)>> ELSE <<>>)

\* what one `with open(path, "w") as f: f.write(content)` can do:
\*   "ok"          the file holds content
\*   "open_error"  open raises, the folder is as before
\*   "write_error" open has created or truncated the file, write raises after
\*                 `partial` pieces reached the disk
WriteOutcomes ==
    {[result |-> "ok", partial |-> 0], [result |-> "open_error", partial |-> 0]}
        \cup {[result |-> "write_error", partial |-> n] : n \in 0..MaxPartial}

\* (mutant: a file that exists is not written again)
WriteFileKeepsExisting(folder, job, outcome) ==
    CASE outcome.result = "ok" -> folder @@ (job.filename :> job.content)
      [] outcome.result = "open_error" -> folder
      [] outcome.result = "write_error" ->
            folder @@ (job.filename :> SubSeq(job.content, 1, outcome.partial))

WriteFile(folder, job, outcome) ==
    CASE outcome.result = "ok" -> (job.filename :> job.content) @@ folder
      [] outcome.result = "open_error" -> folder
      [] outcome.result = "write_error" ->
            (job.filename :> SubSeq(job.content, 1, outcome.partial)) @@ folder

\* (mutant: the first failed write ends the batch)
RECURSIVE SaveLoop(_, _, _, _)
SaveLoopStopsAtFailure(folder, jobs, outcomes, k) ==
    IF k = 0 THEN [folder |-> folder, files_created |-> 0, total_rules |-> 0]
    ELSE LET before == SaveLoop(folder, jobs, outcomes, k - 1)
         IN  IF \E j \in 1..(k - 1) : outcomes[j].result # "ok" THEN before
             ELSE [folder |-> WriteFile(before.folder, jobs[k], outcomes[k]),
                   files_created |-> before.files_created
                                       + (IF outcomes[k].result = "ok" THEN 1 ELSE 0),
                   total_rules |-> before.total_rules
                                       + (IF outcomes[k].result = "ok" THEN jobs[k].rules ELSE 0)]

\* the two write loops of convert_and_save after k files: every write is in a
\* try of its own, and the counters move only after a write that succeeded
SaveLoop(folder, jobs, outcomes, k) ==
    IF k = 0 THEN [folder |-> folder, files_created |-> 0, total_rules |-> 0]
    ELSE LET before == SaveLoop(folder, jobs, outcomes, k - 1)
         IN  [folder |-> WriteFile(before.folder, jobs[k], outcomes[k]),
              files_created |-> before.files_created
                                  + (IF outcomes[k].result = "ok" THEN 1 ELSE 0),
              total_rules |-> before.total_rules
                                  + (IF outcomes[k].result = "ok" THEN jobs[k].rules ELSE 0)]

\* `not domain_map and not global_selectors`
NoRules(parsed) == parsed.domain_map = <<>> /\ parsed.global_selectors = <<>>

-----------------------------------------------------------------------------
(* export_as_zip: the archive is the sequence of the entries written to it *)
(* (writestr appends an entry, also under a name the archive holds) and    *)
(* whether close() wrote its central directory.                            *)

ZipEntry(job) == [filename |-> job.filename, content |-> job.content]

ZipEntries(jobs) == [i \in 1..Len(jobs) |-> ZipEntry(jobs[i])]

\* what `with zipfile.ZipFile(zip_path, 'w') as zf:` and its writes can do:
\*   [step |-> "open"]           ZipFile() raises, the path is as before
\*   [step |-> "write", at |-> k]  the k-th writestr raises; leaving the with
\*                               block closes the archive, which may fail too
\*   [step |-> "close"]          every entry is written, close() raises
\*   [step |-> "none"]           nothing fails
ZipOutcomes(jobs) ==
    {[step |-> "none", at |-> 0, closed |-> TRUE],
     [step |-> "open", at |-> 0, closed |-> FALSE],
     [step |-> "close", at |-> 0, closed |-> FALSE]}
        \cup {[step |-> "write", at |-> k, closed |-> c] : k \in 1..Len(jobs), c \in BOOLEAN}

\* the archive at zip_path after the try block
ZipWritten(archive, jobs, outcome) ==
    CASE outcome.step = "open" -> archive
      [] outcome.step = "write" ->
            [exists |-> TRUE, entries |-> ZipEntries(SubSeq(jobs, 1, outcome.at - 1)),
             closed |-> outcome.closed]
      [] outcome.step = "close" ->
            [exists |-> TRUE, entries |-> ZipEntries(jobs), closed |-> FALSE]
      [] outcome.step = "none" ->
            [exists |-> TRUE, entries |-> ZipEntries(jobs), closed |-> TRUE]

-----------------------------------------------------------------------------
(* generate_stylus_json and create_stylus_style_entry.                     *)

ID_MODULUS == 1000000
UPDATE_INTERVAL == 24

\* the keys "show-badge" and "sync.enabled" are the fields show_badge and
\* sync_enabled; in a style entry "_id" and "_rev" are the fields uuid and rev
SETTINGS_OBJ ==
    [settings |-> [disableAll |-> FALSE, exposeIframes |-> FALSE,
                   newStyleAsUsercss |-> FALSE, openEditInWindow |-> FALSE,
                   show_badge |-> TRUE, styleViaASS |-> FALSE, urlInstaller |-> TRUE,
                   sync_enabled |-> "none", updateInterval |-> UPDATE_INTERVAL],
     order |-> [main |-> <<>>, prio |-> <<>>]]

RULES_FOR == "/* Rules for "
RULES_FOR_END == " */\n\n"
RULES_CONVERTED == "/* Rules converted from uBlock Origin */\n\n"
GLOBAL_STYLE_NAME == <<"Global Rules - uBlock Converted">>

\* domains=None
NONE == <<>>

\* css_code of a style entry; its blocks are built as in generate_usercss
CssCode(name, rules, is_global) ==
    IF is_global THEN <<RULES_CONVERTED>> \o AllRulesText(rules)
    ELSE <<RULES_FOR>> \o name \o <<RULES_FOR_END>> \o AllRulesText(rules)

\* now is int(time.time() * 1000), uuid is str(uuid.uuid4())
create_stylus_style_entry(name, rules, domains, style_id, is_global, now, uuid) ==
    [enabled |-> TRUE,
     installDate |-> now,
     name |-> name,
     sections |-> << IF ~is_global /\ domains # <<>>
                     THEN [code |-> CssCode(name, rules, is_global), domains |-> domains]
                     ELSE [code |-> CssCode(name, rules, is_global)] >>,
     updateDate |-> now,
     uuid |-> uuid,
     rev |-> now,
     id |-> style_id]

\* (mutant: the "www." variant is added to every domain)
TargetDomainsAlwaysWww(domain) == <<domain, WWW \o domain>>

\* [domain, f"www.{domain}"] if not domain.startswith('www.') else [domain]
TargetDomains(domain) ==
    IF ~StartsWith(domain, WWW) THEN <<domain, WWW \o domain>> ELSE <<domain>>

\* (mutant: the global entry is put before the domain entries)
GenerateStylusGlobalFirst(domain_map, global_selectors, clock) ==
    <<SETTINGS_OBJ>>
    \o (IF global_selectors # <<>>
        THEN << create_stylus_style_entry(
                   GLOBAL_STYLE_NAME, dedupe_rules(global_selectors), NONE,
                   (clock[0] % ID_MODULUS) + Len(domain_map), TRUE,
                   clock[Len(domain_map) + 1], <<"uuid4", Len(domain_map) + 1>>) >>
        ELSE <<>>)
    \o [idx \in 1..Len(domain_map) |->
          create_stylus_style_entry(
              domain_map[idx].domain, dedupe_rules(domain_map[idx].rules),
              TargetDomains(domain_map[idx].domain),
              (clock[0] % ID_MODULUS) + (idx - 1), FALSE, clock[idx], <<"uuid4", idx>>)]

\* clock[0] is the value of int(time.time() * 1000) read for base_id and
\* clock[k] the value read by the k-th create_stylus_style_entry; the k-th
\* uuid4 of the call is the token <<"uuid4", k>>
generate_stylus_json(domain_map, global_selectors, clock) ==
    <<SETTINGS_OBJ>>
    \o [idx \in 1..Len(domain_map) |->
          create_stylus_style_entry(
              domain_map[idx].domain, dedupe_rules(domain_map[idx].rules),
              TargetDomains(domain_map[idx].domain),
              (clock[0] % ID_MODULUS) + (idx - 1), FALSE, clock[idx], <<"uuid4", idx>>)]
    \o (IF global_selectors # <<>>
        THEN << create_stylus_style_entry(
                   GLOBAL_STYLE_NAME, dedupe_rules(global_selectors), NONE,
                   (clock[0] % ID_MODULUS) + Len(domain_map), TRUE,
                   clock[Len(domain_map) + 1], <<"uuid4", Len(domain_map) + 1>>) >>
        ELSE <<>>)

\* the number of style entries of an export
StyleCount(parsed) ==
    Len(parsed.domain_map) + (IF parsed.global_selectors # <<>> THEN 1 ELSE 0)

\* what the try block of export_as_stylus_json can do:
\*   "open"    open(json_path, 'w') raises, the path is as before
\*   "dump"    json.dump raises after `at` elements of the list were written
\*   "reveal"  the file is written and closed; opening its folder raises
\*   "none"    nothing fails
JsonOutcomes(export) ==
    {[step |-> "none", at |-> 0], [step |-> "open", at |-> 0], [step |-> "reveal", at |-> 0]}
        \cup {[step |-> "dump", at |-> k] : k \in 0..Len(export)}

\* the file at json_path after the try block: the elements of the list it
\* holds, and whether the text was written to its end
JsonWritten(file, export, outcome) ==
    CASE outcome.step = "open" -> file
      [] outcome.step = "dump" ->
            [exists |-> TRUE, items |-> SubSeq(export, 1, outcome.at), complete |-> FALSE]
      [] outcome.step \in {"none", "reveal"} ->
            [exists |-> TRUE, items |-> export, complete |-> TRUE]

-----------------------------------------------------------------------------
(* Input texts.                                                            *)

MaxStyles == 2       \* ":style(" wrappers chained in a generated selector part

SeqsUpTo(S, n) == UNION {[1..k -> S] : k \in 0..n}

\* tokens between the commas of a domains part
DomainTokens ==
    { <<"a">>, <<"b">>, <<>>, <<" ", "a", " ">>, <<"a", "$">>, <<"|", "|", "a">> }

DomainsParts == {Join(ts, <<",">>) : ts \in SeqsUpTo(DomainTokens, MaxDomains)}

\* ".x" followed by k wrappers ":style(c)"
RECURSIVE StyleChain(_)
StyleChain(k) ==
    IF k = 0 THEN <<".", "x">>
    ELSE StyleChain(k - 1) \o STYLE_OPEN \o <<"c", ")">>

SelectorParts ==
    {StyleChain(k) : k \in 0..MaxStyles} \cup
    { <<>>,
      <<" ">>,
      <<" ", ".", "y", " ">>,
      <<".", "x", "#", "#", "y">>,
      STYLE_OPEN \o <<"c", ")">>,                                  \* :style(c)
      STYLE_OPEN \o <<"c", ")">> \o STYLE_OPEN \o <<"d", ")">>,    \* :style(c):style(d)
      <<".", "x">> \o STYLE_OPEN \o <<")">>,                       \* .x:style()
      <<".", "x">> \o STYLE_OPEN \o <<"c">>,                       \* .x:style(c
      <<".", "x">> \o STYLE_OPEN \o <<" ", ")">>,                  \* .x:style( )
      <<".", "y", " ">> \o STYLE_OPEN \o <<" ", "c", " ", ")", " ">>,  \* .y :style( c )
      <<".", "x">> \o STYLE_OPEN \o <<"c", ")">> \o STYLE_OPEN \o <<")">> }  \* .x:style(c):style()

CosmeticLines == {d \o HASHES \o s : d \in DomainsParts, s \in SelectorParts}

OtherLines ==
    { <<>>,
      <<"!", "c">>,
      <<"!", "a", "#", "#", ".", "x">>,
      <<"!", "$", "#", "#", ".", "x">>,
      <<"|", "|", "a", "^">>,
      <<"@", "@", "a", "#", "#", ".", "x">>,
      <<"/", "a", "/">>,
      <<"/", "#", "#", ".", "x">>,
      <<"a", "$", "b">>,
      <<"|", "a">>,
      <<"a", "b", "c">>,
      <<"a", "#", ".", "x">>,
      <<" ", "a", "b", " ">> }

\* the lines multi-line texts are made of
SmallLines ==
    { <<"a", "#", "#", ".", "x">>,
      <<"#", "#", ".", "y">>,
      <<"a", ",", "b", "#", "#", ".", "x">>,
      <<"a", "#", "#", ".", "x">> \o STYLE_OPEN \o <<"c", ")">>,
      <<"a", "#", "#">>,
      <<"a", "b", "c">>,
      <<"|", "|", "a">>,
      <<"!", "c">>,
      <<>> }

ParseTexts ==
    CosmeticLines \cup OtherLines \cup
    {Join(ls, <<"\n">>) : ls \in UNION {[1..k -> SmallLines] : k \in 2..MaxLines}} \cup
    { <<"b", "#", "#", "\n", "a", "#", "#", ".", "x">> }

-----------------------------------------------------------------------------
(* The state machine.                                                      *)

\* no file at the path
NoFile == [exists |-> FALSE]
NoValue == "no value"

\* what no handler has touched yet
Untouched ==
    /\ output_dir = <<>>
    /\ files = <<>>
    /\ zip_file = NoFile
    /\ json_file = NoFile
    /\ status = <<"Ready", "info">>
    /\ report = NoValue
    /\ call = "none"
    /\ arg = NoValue
    /\ ret = NoValue

\* the parser alone, on every input text of the bounds
InitParse ==
    /\ text_input \in ParseTexts
    /\ Untouched

ParseFilters ==
    /\ call' = "parse_filters"
    /\ ret' = parse_filters(text_input)
    /\ UNCHANGED <<text_input, output_dir, files, zip_file, json_file, status, report, arg>>

NextParse == ParseFilters

SpecParse == InitParse /\ [][NextParse]_vars

-----------------------------------------------------------------------------
(* Properties of parse_filters.                                            *)

RECURSIVE DomainRuleCount(_)
\* the number of Rule entries over all lists of a domain map
DomainRuleCount(dm) ==
    IF dm = <<>> THEN 0 ELSE Len(Head(dm).rules) + DomainRuleCount(Tail(dm))

\* a line that is non-empty after trimming and does not start with "!"
IsCandidate(raw_line) ==
    Strip(raw_line) # <<>> /\ ~StartsWith(Strip(raw_line), <<"!">>)

CandidateLines(lines) == {k \in 1..Len(lines) : IsCandidate(lines[k])}

\* the entries of a diagnostics list recorded for line k
EntriesAt(entries, k) == {i \in 1..Len(entries) : entries[i][1] = k}

\* the rules iteration k of the loop appended to the lists of domain d, and to
\* the global list
NewDomainRules(lines, k) ==
    DomainRuleCount(ParseLoop(lines, k).domain_map)
        - DomainRuleCount(ParseLoop(lines, k - 1).domain_map)

NewGlobalRules(lines, k) ==
    Len(ParseLoop(lines, k).global_selectors)
        - Len(ParseLoop(lines, k - 1).global_selectors)

\* C1: every non-empty line that does not start with "!" is classified into
\* exactly one class: it adds Rule entries (to domain lists or to the global
\* list, never both), or it is recorded once in invalid_lines, or once in
\* skipped_lines; the returned result is the loop run over every line, whatever
\* the earlier lines were.
C1_EveryLineClassifiedOnce ==
    call = "parse_filters" =>
        LET lines == InputLines(text_input)
        IN  /\ ret = ParseLoop(lines, Len(lines))
            /\ \A k \in CandidateLines(lines) :
                 LET nd == NewDomainRules(lines, k)
                     ng == NewGlobalRules(lines, k)
                     ni == Cardinality(EntriesAt(ret.invalid_lines, k))
                     ns == Cardinality(EntriesAt(ret.skipped_lines, k))
                 IN  \/ nd >= 1 /\ ng = 0 /\ ni = 0 /\ ns = 0
                     \/ nd = 0 /\ ng = 1 /\ ni = 0 /\ ns = 0
                     \/ nd = 0 /\ ng = 0 /\ ni = 1 /\ ns = 0
                     \/ nd = 0 /\ ng = 0 /\ ni = 0 /\ ns = 1

\* C1 witness: the first line is invalid, and later lines of the same text are
\* skipped and converted to a rule
C1_Witness ==
    /\ call = "parse_filters"
    /\ ret.invalid_lines # <<>>
    /\ ret.invalid_lines[1][1] = 1
    /\ \E i \in 1..Len(ret.skipped_lines) : ret.skipped_lines[i][1] > 1
    /\ DomainRuleCount(ret.domain_map) + Len(ret.global_selectors) >= 1

\* the sum of the four counts of a parse result
CountSum(p) ==
    DomainRuleCount(p.domain_map) + Len(p.global_selectors)
        + Len(p.invalid_lines) + Len(p.skipped_lines)

\* the lines that are neither invalid nor skipped: the ones that yield a rule
RuleLines(lines, p) ==
    {k \in CandidateLines(lines) :
        EntriesAt(p.invalid_lines, k) = {} /\ EntriesAt(p.skipped_lines, k) = {}}

\* the number of "," before the first "##" of line k
Commas(line) ==
    LET pre == Split1(Strip(line), HASHES)[1]
    IN  Cardinality({i \in 1..Len(pre) : pre[i] = ","})

RECURSIVE SumCommas(_, _)
SumCommas(lines, ks) ==
    IF ks = {} THEN 0
    ELSE LET k == CHOOSE x \in ks : TRUE
         IN  Commas(lines[k]) + SumCommas(lines, ks \ {k})

\* C2 as stated: the four counts sum to the number of non-empty non-comment
\* lines
C2_CountsSumToLines ==
    call = "parse_filters" =>
        CountSum(ret) = Cardinality(CandidateLines(InputLines(text_input)))

\* C2 as amended: the four counts sum to the number of non-empty non-comment
\* lines plus, for every line that yields a rule, the number of "," in its
\* domains part: such a line counts once per comma-separated domain token
C2_CountsSumWithDomains ==
    call = "parse_filters" =>
        LET lines == InputLines(text_input)
        IN  CountSum(ret) = Cardinality(CandidateLines(lines))
                              + SumCommas(lines, RuleLines(lines, ret))

\* C2 witness: a text with a rule line that lists two domains, an invalid line
\* and a skipped line
C2_Witness ==
    /\ call = "parse_filters"
    /\ Len(ret.domain_map) >= 2
    /\ ret.invalid_lines # <<>>
    /\ ret.skipped_lines # <<>>
    /\ CountSum(ret) > Cardinality(CandidateLines(InputLines(text_input)))

\* the single line of a one-line text whose selector part holds ":style(" and
\* matches the pattern, and the rules it yields
StyleLine ==
    /\ call = "parse_filters"
    /\ Len(InputLines(text_input)) = 1
    /\ RuleLines(InputLines(text_input), ret) = {1}
    /\ Contains(Strip(Split1(Strip(InputLines(text_input)[1]), HASHES)[2]), STYLE_OPEN)

SelectorPartOfLine == Strip(Split1(Strip(InputLines(text_input)[1]), HASHES)[2])

AllRules(p) ==
    {p.global_selectors[i] : i \in 1..Len(p.global_selectors)} \cup
    UNION {{p.domain_map[d].rules[i] : i \in 1..Len(p.domain_map[d].rules)} :
              d \in 1..Len(p.domain_map)}

\* the rule that splits s at position i of a ":style("
SplitAtStyle(s, i) ==
    <<Strip(SubSeq(s, 1, i - 1)), Strip(SubSeq(s, i + Len(STYLE_OPEN), Len(s) - 1))>>

StylePositions(s) == {i \in 1..Len(s) : OccursAt(s, STYLE_OPEN, i)}

\* C3 as stated: the selector is the text before the last ":style(" of the
\* selector part and the declaration the text between it and the final ")"
C3_SplitsAtLastStyle ==
    StyleLine =>
        LET s == SelectorPartOfLine
            last == CHOOSE i \in StylePositions(s) : \A j \in StylePositions(s) : j <= i
        IN  AllRules(ret) = {SplitAtStyle(s, last)}

\* C3 as amended: the selector is the text before the first ":style(" that has
\* at least one character before it, and the declaration is everything between
\* that occurrence and the final ")", later ":style(" occurrences included
C3_SplitsAtFirstStyle ==
    StyleLine =>
        LET s == SelectorPartOfLine
            first == CHOOSE i \in StylePositions(s) \ {1} :
                        \A j \in StylePositions(s) \ {1} : i <= j
        IN  AllRules(ret) = {SplitAtStyle(s, first)}

\* C3 witness: a matching selector part with two ":style(" occurrences
C3_Witness ==
    /\ StyleLine
    /\ Cardinality(StylePositions(SelectorPartOfLine)) >= 2
    /\ AllRules(ret) # {}

\* the keys of a domain map in insertion order, and the list of one key
KeysOf(dm) == [i \in 1..Len(dm) |-> dm[i].domain]

RulesFor(dm, d) ==
    IF \E i \in 1..Len(dm) : dm[i].domain = d
    THEN dm[CHOOSE i \in 1..Len(dm) : dm[i].domain = d].rules
    ELSE <<>>

\* the trimmed text before the first "##" of a line, and its tokens trimmed
DomainsPartOf(line) == Strip(Split1(Strip(line), HASHES)[1])

TokensOf(line) ==
    LET ts == Split(DomainsPartOf(line), <<",">>)
    IN  [i \in 1..Len(ts) |-> Strip(ts[i])]

\* the position of the first token equal to d
FirstToken(tokens, d) ==
    CHOOSE i \in 1..Len(tokens) : tokens[i] = d /\ \A j \in 1..(i - 1) : tokens[j] # d

\* C11: a line that yields a Rule appends it to the global list, and changes
\* no domain list, iff the trimmed text before its first "##" is empty;
\* otherwise the global list is unchanged and the same Rule is appended to the
\* list of every trimmed token of that text split on ",", once per token and
\* in token order (new keys are inserted in token order), a token that is
\* empty after trimming being the key "" like any other.
C11_RuleGoesToGlobalOrEveryToken ==
    call = "parse_filters" =>
        LET lines == InputLines(text_input)
        IN  \A k \in RuleLines(lines, ret) :
              LET before == ParseLoop(lines, k - 1)
                  after == ParseLoop(lines, k)
                  tokens == TokensOf(lines[k])
                  old == KeysOf(before.domain_map)
                  new == KeysOf(after.domain_map)
              IN  IF DomainsPartOf(lines[k]) = <<>>
                  THEN /\ Len(after.global_selectors) = Len(before.global_selectors) + 1
                       /\ SubSeq(after.global_selectors, 1, Len(before.global_selectors))
                             = before.global_selectors
                       /\ after.domain_map = before.domain_map
                  ELSE /\ after.global_selectors = before.global_selectors
                       /\ Len(tokens) = Commas(lines[k]) + 1
                       /\ SubSeq(new, 1, Len(old)) = old
                       /\ {new[i] : i \in 1..Len(new)}
                             = {old[i] : i \in 1..Len(old)} \cup {tokens[i] : i \in 1..Len(tokens)}
                       /\ \A i \in 1..Len(new) : \A j \in 1..Len(new) :
                             (Len(old) < i /\ i < j)
                                => FirstToken(tokens, new[i]) < FirstToken(tokens, new[j])
                       /\ \E rule \in AllRules(after) :
                             \A d \in {new[i] : i \in 1..Len(new)} :
                                RulesFor(after.domain_map, d)
                                   = RulesFor(before.domain_map, d)
                                       \o [n \in 1..Cardinality({i \in 1..Len(tokens) : tokens[i] = d})
                                             |-> rule]

\* C11 witness: the line "a,##.x": one rule under the key "a" and under the
\* empty key, none in the global list
C11_Witness ==
    /\ call = "parse_filters"
    /\ Len(InputLines(text_input)) = 1
    /\ TokensOf(InputLines(text_input)[1]) = << <<"a">>, <<>> >>
    /\ KeysOf(ret.domain_map) = << <<"a">>, <<>> >>
    /\ ret.global_selectors = <<>>
    /\ RulesFor(ret.domain_map, <<>>) = RulesFor(ret.domain_map, <<"a">>)
    /\ Len(RulesFor(ret.domain_map, <<>>)) = 1

\* line k is recorded once in skipped_lines, with this reason, and nowhere
\* else: not in invalid_lines and it adds no rule
SkippedAs(lines, k, reason) ==
    /\ \E i \in 1..Len(ret.skipped_lines) :
          /\ ret.skipped_lines[i] = <<k, Strip(lines[k]), reason>>
          /\ EntriesAt(ret.skipped_lines, k) = {i}
    /\ EntriesAt(ret.invalid_lines, k) = {}
    /\ NewDomainRules(lines, k) = 0
    /\ NewGlobalRules(lines, k) = 0

\* the trimmed line starts with "||", "@@" or "/"
StartsAsNetworkFilter(line) ==
    \/ StartsWith(Strip(line), <<"|", "|">>)
    \/ StartsWith(Strip(line), <<"@", "@">>)
    \/ StartsWith(Strip(line), <<"/">>)

\* the line contains "##" and the text before its first "##" contains "$"
HasOptionsBeforeHashes(line) ==
    /\ Contains(Strip(line), HASHES)
    /\ Contains(Split1(Strip(line), HASHES)[1], <<"$">>)

\* C12 (as stated): a trimmed line starting with "||", "@@" or "/" is skipped
\* with reason "Network filter", with or without "##"; a line containing "##"
\* whose text before the first "##" contains "$" is skipped with reason
\* "Network filter with options" whatever its selector part is; in both cases
\* the line is in neither invalid_lines nor any rule list.  (Read for the
\* lines that are not comments.)
C12_OptionsAlwaysSkippedWithOptions ==
    call = "parse_filters" =>
        LET lines == InputLines(text_input)
        IN  \A k \in 1..Len(lines) :
              /\ StartsAsNetworkFilter(lines[k]) => SkippedAs(lines, k, "Network filter")
              /\ (HasOptionsBeforeHashes(lines[k]) /\ IsCandidate(lines[k]))
                    => SkippedAs(lines, k, "Network filter with options")

\* C12 (amended): a trimmed line starting with "||", "@@" or "/" is skipped
\* with reason "Network filter", with or without "##" and with or without
\* "$"; a line that is not a comment, does not start with "||", "@@" or "/",
\* contains "##" and has "$" before its first "##" is skipped with reason
\* "Network filter with options" whatever its selector part is; in both cases
\* the line is in neither invalid_lines nor any rule list.  A comment line
\* is recorded nowhere.
C12_SkipBeforeCosmetic ==
    call = "parse_filters" =>
        LET lines == InputLines(text_input)
        IN  \A k \in 1..Len(lines) :
              /\ StartsAsNetworkFilter(lines[k]) => SkippedAs(lines, k, "Network filter")
              /\ (HasOptionsBeforeHashes(lines[k]) /\ IsCandidate(lines[k])
                    /\ ~StartsAsNetworkFilter(lines[k]))
                    => SkippedAs(lines, k, "Network filter with options")
              /\ (HasOptionsBeforeHashes(lines[k]) /\ ~IsCandidate(lines[k]))
                    => /\ EntriesAt(ret.skipped_lines, k) = {}
                       /\ EntriesAt(ret.invalid_lines, k) = {}

\* C12 witness: a line with "$" before "##" and a ":style(" that does not
\* match the pattern, skipped with reason "Network filter with options"
C12_Witness ==
    /\ call = "parse_filters"
    /\ Len(InputLines(text_input)) = 1
    /\ HasOptionsBeforeHashes(InputLines(text_input)[1])
    /\ Contains(Split1(Strip(InputLines(text_input)[1]), HASHES)[2], STYLE_OPEN)
    /\ StyleMatch(Strip(Split1(Strip(InputLines(text_input)[1]), HASHES)[2])) = 0
    /\ SkippedAs(InputLines(text_input), 1, "Network filter with options")
    /\ ret.invalid_lines = <<>>

\* line k is recorded once in invalid_lines, with this reason, and nowhere
\* else: not in skipped_lines and it adds no rule
InvalidAs(lines, k, reason) ==
    /\ \E i \in 1..Len(ret.invalid_lines) :
          /\ ret.invalid_lines[i] = <<k, Strip(lines[k]), reason>>
          /\ EntriesAt(ret.invalid_lines, k) = {i}
    /\ EntriesAt(ret.skipped_lines, k) = {}
    /\ NewDomainRules(lines, k) = 0
    /\ NewGlobalRules(lines, k) = 0

\* a non-empty, non-comment line without "##" that does not start with "||",
\* "@@" or "/"
LacksSeparator(line) ==
    /\ IsCandidate(line)
    /\ ~Contains(Strip(line), HASHES)
    /\ ~StartsAsNetworkFilter(line)

\* C13: a non-empty, non-comment line without "##" that does not start with
\* "||", "@@" or "/" is skipped with reason "Network filter" if it contains
\* "$" or starts with "|", and is otherwise invalid with reason "Missing ##
\* separator"; it never yields a Rule.
C13_NoSeparatorSkippedOrInvalid ==
    call = "parse_filters" =>
        LET lines == InputLines(text_input)
        IN  \A k \in 1..Len(lines) :
              LacksSeparator(lines[k]) =>
                  IF Contains(Strip(lines[k]), <<"$">>) \/ StartsWith(Strip(lines[k]), <<"|">>)
                  THEN SkippedAs(lines, k, "Network filter")
                  ELSE InvalidAs(lines, k, "Missing ## separator")

\* C13 witness: the line "|a", which has no "$", skipped as a network filter
C13_Witness ==
    /\ call = "parse_filters"
    /\ Len(InputLines(text_input)) = 1
    /\ LacksSeparator(InputLines(text_input)[1])
    /\ ~Contains(InputLines(text_input)[1], <<"$">>)
    /\ SkippedAs(InputLines(text_input), 1, "Network filter")
    /\ AllRules(ret) = {}

\* a line that contains "##" and is neither a comment nor skipped
ReachesSelector(line) ==
    /\ IsCandidate(line)
    /\ Contains(Strip(line), HASHES)
    /\ ~StartsAsNetworkFilter(line)
    /\ ~HasOptionsBeforeHashes(line)

\* the trimmed text after the first "##" of a line
SelectorPartOf(line) == Strip(Split1(Strip(line), HASHES)[2])

\* one or more characters, ":style(", one or more characters, ")" at the end
MatchesStylePattern(s) ==
    \E i \in 2..Len(s) :
        /\ OccursAt(s, STYLE_OPEN, i)
        /\ i + Len(STYLE_OPEN) < Len(s)
        /\ s[Len(s)] = ")"

\* the rules iteration k of the loop appended, to any list
AppendedRules(lines, k) ==
    LET before == ParseLoop(lines, k - 1)
        after == ParseLoop(lines, k)
    IN  {after.global_selectors[i] :
            i \in (Len(before.global_selectors) + 1)..Len(after.global_selectors)}
        \cup UNION {
            {after.domain_map[d].rules[i] :
                i \in (Len(RulesFor(before.domain_map, after.domain_map[d].domain)) + 1)
                        ..Len(after.domain_map[d].rules)} : d \in 1..Len(after.domain_map)}

\* line k yields one Rule and no diagnostics entry
YieldsRule(lines, k) ==
    /\ Cardinality(AppendedRules(lines, k)) = 1
    /\ EntriesAt(ret.invalid_lines, k) = {}
    /\ EntriesAt(ret.skipped_lines, k) = {}

\* C14: a line that contains "##" and is not skipped yields a Rule iff its
\* trimmed selector part is non-empty and either has no ":style(" (the Rule
\* is then (selector part, "display: none !important")) or matches the
\* pattern; otherwise it is recorded in invalid_lines, with reason "Empty
\* selector" or "Invalid :style() syntax", and adds no rule.
C14_RuleIffSelectorWellFormed ==
    call = "parse_filters" =>
        LET lines == InputLines(text_input)
        IN  \A k \in 1..Len(lines) :
              ReachesSelector(lines[k]) =>
                  LET s == SelectorPartOf(lines[k])
                  IN  CASE s = <<>> -> InvalidAs(lines, k, "Empty selector")
                        [] s # <<>> /\ ~Contains(s, STYLE_OPEN) ->
                              /\ YieldsRule(lines, k)
                              /\ AppendedRules(lines, k) = {<<s, HIDE_RULE>>}
                        [] Contains(s, STYLE_OPEN) /\ MatchesStylePattern(s) ->
                              YieldsRule(lines, k)
                        [] Contains(s, STYLE_OPEN) /\ ~MatchesStylePattern(s) ->
                              InvalidAs(lines, k, "Invalid :style() syntax")

\* C14 witness: the selector part ".x:style()" has ":style(" and nothing
\* between the parentheses: the line is invalid
C14_Witness ==
    /\ call = "parse_filters"
    /\ Len(InputLines(text_input)) = 1
    /\ ReachesSelector(InputLines(text_input)[1])
    /\ SelectorPartOf(InputLines(text_input)[1]) = <<".", "x">> \o STYLE_OPEN \o <<")">>
    /\ InvalidAs(InputLines(text_input), 1, "Invalid :style() syntax")
    /\ AllRules(ret) = {}

\* the lines of the raw input text, by position: the text between its "\n"
RawLines(text) == Split(text, <<"\n">>)

\* a diagnostics list is in strictly increasing line number order
Increasing(entries) ==
    \A i \in 1..Len(entries) : \A j \in 1..Len(entries) :
        i < j => entries[i][1] < entries[j][1]

\* the entry carries the trimmed text of the line of the raw text at its
\* line number
NumberedInRawText(entry) ==
    /\ entry[1] \in 1..Len(RawLines(text_input))
    /\ entry[2] = Strip(RawLines(text_input)[entry[1]])

\* C19: the line number of every invalid_lines and skipped_lines entry is the
\* 1-based position of its line in the raw input text, also when the text
\* begins with blank lines, and both lists are in strictly increasing line
\* number order.
C19_LineNumbersOfRawText ==
    call = "parse_filters" =>
        /\ \A i \in 1..Len(ret.invalid_lines) : NumberedInRawText(ret.invalid_lines[i])
        /\ \A i \in 1..Len(ret.skipped_lines) : NumberedInRawText(ret.skipped_lines[i])
        /\ Increasing(ret.invalid_lines)
        /\ Increasing(ret.skipped_lines)

\* the text begins with a blank line and its second line is recorded as
\* line 1
C19_Witness ==
    /\ call = "parse_filters"
    /\ RawLines(text_input)[1] = <<>>
    /\ Len(RawLines(text_input)) >= 2
    /\ \E i \in 1..Len(ret.invalid_lines) :
          /\ ret.invalid_lines[i][1] = 1
          /\ ret.invalid_lines[i][2] = Strip(RawLines(text_input)[2])
          /\ ret.invalid_lines[i][2] # Strip(RawLines(text_input)[1])
    /\ Increasing(ret.invalid_lines)

\* a text with no whitespace at either end
Trimmed(s) == Strip(s) = s

\* the text between the first ":style(" that has text before it and the
\* last character of s is whitespace only, and not empty
WhitespaceOnlyStyle(s) ==
    \E i \in 2..Len(s) :
        /\ OccursAt(s, STYLE_OPEN, i)
        /\ \A j \in 2..(i - 1) : ~OccursAt(s, STYLE_OPEN, j)
        /\ s[Len(s)] = ")"
        /\ i + Len(STYLE_OPEN) < Len(s)
        /\ \A j \in (i + Len(STYLE_OPEN))..(Len(s) - 1) : IsSpace(s[j])

\* C23 as stated: every Rule in domain_map or global_selectors has a selector
\* that is non-empty with no leading or trailing whitespace and a declaration
\* that is non-empty with no leading or trailing whitespace.
C23_SelectorAndDeclarationNonEmptyTrimmed ==
    call = "parse_filters" =>
        \A rule \in AllRules(ret) :
            /\ rule[1] # <<>> /\ Trimmed(rule[1])
            /\ rule[2] # <<>> /\ Trimmed(rule[2])

\* C23, amended: every Rule in domain_map or global_selectors has a selector
\* that is non-empty with no leading or trailing whitespace and a declaration
\* with no leading or trailing whitespace; the declaration of the Rule of a
\* line is empty exactly when the line's ":style(" clause holds whitespace
\* only, and is "display: none !important" when the line has no ":style(".
C23_SelectorNonEmptyBothTrimmed ==
    call = "parse_filters" =>
        LET lines == InputLines(text_input)
        IN  /\ \A rule \in AllRules(ret) :
                  /\ rule[1] # <<>> /\ Trimmed(rule[1])
                  /\ Trimmed(rule[2])
            /\ \A k \in RuleLines(lines, ret) :
                  \A rule \in AppendedRules(lines, k) :
                      /\ rule[2] = <<>> <=> WhitespaceOnlyStyle(SelectorPartOf(lines[k]))
                      /\ ~Contains(SelectorPartOf(lines[k]), STYLE_OPEN)
                            => rule[2] = HIDE_RULE

\* C23 witness: the line "a##.x:style( )" yields the Rule (".x", ""), whose
\* declaration is empty
C23_Witness ==
    /\ call = "parse_filters"
    /\ Len(InputLines(text_input)) = 1
    /\ ReachesSelector(InputLines(text_input)[1])
    /\ SelectorPartOf(InputLines(text_input)[1]) = <<".", "x">> \o STYLE_OPEN \o <<" ", ")">>
    /\ ret.domain_map = << [domain |-> <<"a">>, rules |-> << << <<".", "x">>, <<>> >> >>] >>
    /\ ret.invalid_lines = <<>>

-----------------------------------------------------------------------------
(* sanitize_filename on its own.                                           *)

NamePieces ==
    { WWW, HTTPS, HTTP, <<"a">>, <<" ">>, <<"/">>, <<"w", "w">>, <<"w", ".">>,
      <<"_", "1", "-">> }

RECURSIVE Concat(_)
Concat(parts) == IF parts = <<>> THEN <<>> ELSE Head(parts) \o Concat(Tail(parts))

SanitizeNames == {Concat(ps) : ps \in SeqsUpTo(NamePieces, MaxPieces)}

InitSanitize ==
    /\ text_input = <<>>
    /\ output_dir = <<>>
    /\ files = <<>>
    /\ zip_file = NoFile
    /\ json_file = NoFile
    /\ status = <<"Ready", "info">>
    /\ report = NoValue
    /\ call = "none"
    /\ arg \in SanitizeNames
    /\ ret = NoValue

SanitizeFilename ==
    /\ call' = "sanitize_filename"
    /\ ret' = sanitize_filename(arg)
    /\ UNCHANGED <<text_input, output_dir, files, zip_file, json_file, status, report, arg>>

NextSanitize == SanitizeFilename

SpecSanitize == InitSanitize /\ [][NextSanitize]_vars

\* the start positions of the occurrences of old that one left-to-right pass
\* over s takes: an occurrence counts unless an earlier taken one overlaps it
RECURSIVE Taken(_, _, _)
Taken(s, old, i) ==
    IF i > Len(s) THEN {}
    ELSE IF OccursAt(s, old, i) THEN {i} \cup Taken(s, old, i + Len(old))
    ELSE Taken(s, old, i + 1)

\* s without the characters of the occurrences starting at the positions ps
Without(s, old, ps) ==
    LET keep == {i \in 1..Len(s) : \A q \in ps : i < q \/ i >= q + Len(old)}
        pos(n) == CHOOSE i \in keep : Cardinality({j \in keep : j < i}) = n - 1
    IN  [n \in 1..Cardinality(keep) |-> s[pos(n)]]

CutEvery(s, old) == Without(s, old, Taken(s, old, 1))

CutFirst(s, old) == Without(s, old, IF Find(s, old) = 0 THEN {} ELSE {Find(s, old)})

\* the longest prefix of s that does not end in whitespace
TrimRight(s) ==
    LET n == CHOOSE k \in 0..Len(s) :
                /\ k = 0 \/ ~IsSpace(s[k])
                /\ \A j \in (k + 1)..Len(s) : IsSpace(s[j])
    IN  SubSeq(s, 1, n)

\* C4 as stated: only the first occurrence of "www.", of "https://" and of
\* "http://" is removed; then only letters, digits, spaces, ".", "_", "-" are
\* kept; then trailing whitespace is trimmed
C4_RemovesFirstOccurrenceOnly ==
    call = "sanitize_filename" =>
        ret = TrimRight(SelectSeq(CutFirst(CutFirst(CutFirst(arg, WWW), HTTPS), HTTP), SafeChar))

\* C4 as amended: every occurrence of "www.", then every occurrence of
\* "https://", then every occurrence of "http://" is removed (each in one
\* left-to-right pass); then only letters, digits, spaces, ".", "_", "-" are
\* kept; then trailing whitespace is trimmed
C4_RemovesEveryOccurrence ==
    call = "sanitize_filename" =>
        /\ ret = TrimRight(SelectSeq(CutEvery(CutEvery(CutEvery(arg, WWW), HTTPS), HTTP), SafeChar))
        /\ \A i \in 1..Len(ret) : SafeChar(ret[i])
        /\ ret = <<>> \/ ~IsSpace(ret[Len(ret)])

\* C4 witness: a name with two occurrences of "www.", both gone from the result
C4_Witness ==
    /\ call = "sanitize_filename"
    /\ Cardinality(Taken(arg, WWW, 1)) >= 2
    /\ ~Contains(ret, WWW)
    /\ ret # <<>>

-----------------------------------------------------------------------------
(* dedupe_rules on its own.                                                *)

RuleSamples ==
    { <<sel, css>> : sel \in { <<"a">>, <<"b">>, <<"a", "b">> },
                     css \in { HIDE_RULE, <<"c">>, <<"a">> } }

InitDedupe ==
    /\ text_input = <<>>
    /\ output_dir = <<>>
    /\ files = <<>>
    /\ zip_file = NoFile
    /\ json_file = NoFile
    /\ status = <<"Ready", "info">>
    /\ report = NoValue
    /\ call = "none"
    /\ arg \in SeqsUpTo(RuleSamples, MaxRules)
    /\ ret = NoValue

DedupeRules ==
    /\ call' = "dedupe_rules"
    /\ ret' = dedupe_rules(arg)
    /\ UNCHANGED <<text_input, output_dir, files, zip_file, json_file, status, report, arg>>

NextDedupe == DedupeRules

SpecDedupe == InitDedupe /\ [][NextDedupe]_vars

Elements(seq) == {seq[i] : i \in 1..Len(seq)}

\* the position of the first occurrence of r in rules
FirstIndex(rules, r) == CHOOSE i \in 1..Len(rules) : rules[i] = r /\ \A j \in 1..(i - 1) : rules[j] # r

\* C6: the output of dedupe holds no two equal pairs, holds exactly the pairs
\* of the input, and dedupe applied to it returns it unchanged
C6_DedupeSetAndIdempotent ==
    call = "dedupe_rules" =>
        /\ \A i, j \in 1..Len(ret) : i # j => ret[i] # ret[j]
        /\ Elements(ret) = Elements(arg)
        /\ dedupe_rules(ret) = ret

\* C6 witness: an input with a repeated pair and a second, different pair
C6_Witness ==
    /\ call = "dedupe_rules"
    /\ \E i, j \in 1..Len(arg) : i # j /\ arg[i] = arg[j]
    /\ Len(ret) >= 2
    /\ Len(ret) < Len(arg)

SortsBefore(r, s) ==
    \/ r[2] = HIDE_RULE /\ s[2] # HIDE_RULE
    \/ (r[2] = HIDE_RULE) = (s[2] = HIDE_RULE) /\ StrLess(r[1], s[1])

-----------------------------------------------------------------------------
(* generate_usercss on its own.                                            *)

CssRuleSamples ==
    { <<sel, css>> : sel \in { <<"a">>, <<"b">> },
                     css \in { HIDE_RULE, <<"c">>, <<"d">> } }

InitUserCSS ==
    /\ text_input = <<>>
    /\ output_dir = <<>>
    /\ files = <<>>
    /\ zip_file = NoFile
    /\ json_file = NoFile
    /\ status = <<"Ready", "info">>
    /\ report = NoValue
    /\ call = "none"
    /\ arg \in [name : { <<"a">>, <<"w", ".", "b">> },
                rules : SeqsUpTo(CssRuleSamples, MaxRules),
                is_global : BOOLEAN]
    /\ ret = NoValue

GenerateUserCSS ==
    /\ call' = "generate_usercss"
    /\ ret' = generate_usercss(arg.name, arg.rules, arg.is_global)
    /\ UNCHANGED <<text_input, output_dir, files, zip_file, json_file, status, report, arg>>

NextUserCSS == GenerateUserCSS

SpecUserCSS == InitUserCSS /\ [][NextUserCSS]_vars

\* the position of the first piece p of a text, 0 when there is none
PieceAt(text, p) ==
    IF \E i \in 1..Len(text) : text[i] = p
    THEN CHOOSE i \in 1..Len(text) : text[i] = p /\ \A j \in 1..(i - 1) : text[j] # p
    ELSE 0

\* the rule blocks of a UserCSS text, read back from the text: what follows
\* the header, without the @-moz-document wrapper when there is one
BodyOfText(text) ==
    LET after == SubSeq(text, PieceAt(text, HEADER_REST) + 1, Len(text))
    IN  IF after # <<>> /\ after[1] = DOCUMENT_OPEN
        THEN SubSeq(after, PieceAt(after, DOCUMENT_BODY) + 1, Len(after) - 1)
        ELSE after

\* one block read back: its selectors and its declaration
ReadBlock(block) ==
    LET halves == Split1(block, <<BLOCK_OPEN>>)
    IN  [selectors |-> Split(Tail(halves[1]), <<SELECTOR_SEP>>),
         css_props |-> SubSeq(halves[2], 1, Len(halves[2]) - 1)]

BlocksOfText(text) ==
    IF BodyOfText(text) = <<>> THEN <<>>
    ELSE LET parts == Split(BodyOfText(text), <<BLOCK_SEP>>)
         IN  [i \in 1..Len(parts) |-> ReadBlock(parts[i])]

\* the places (block, position) of the output where selector sel stands
Places(blocks, sel) ==
    {<<b, i>> \in (1..Len(blocks)) \X (1..MaxRules + 1) :
        i <= Len(blocks[b].selectors) /\ blocks[b].selectors[i] = sel}

\* the selectors a list pairs with declaration css, in list order
RECURSIVE SelectorsWith(_, _)
SelectorsWith(rules, css) ==
    IF rules = <<>> THEN <<>>
    ELSE IF Head(rules)[2] = css THEN <<Head(rules)[1]>> \o SelectorsWith(Tail(rules), css)
    ELSE SelectorsWith(Tail(rules), css)

\* C5 as stated: every selector of the list stands at exactly one place of the
\* output, in a block whose declaration is the selector's declaration
C5_EachSelectorOnce ==
    call = "generate_usercss" =>
        \A k \in 1..Len(arg.rules) :
            /\ Cardinality(Places(BlocksOfText(ret), arg.rules[k][1])) = 1
            /\ \A pl \in Places(BlocksOfText(ret), arg.rules[k][1]) :
                  BlocksOfText(ret)[pl[1]].css_props = arg.rules[k][2]

\* C5 as amended: the output has exactly one block per distinct declaration of
\* the list, and the selector list of the block of a declaration is the
\* selectors the list pairs with that declaration, in list order and as many
\* times as the list holds the pair
C5_EachPairInItsBlock ==
    call = "generate_usercss" =>
        LET blocks == BlocksOfText(ret)
        IN  /\ \A b, c \in 1..Len(blocks) : b # c => blocks[b].css_props # blocks[c].css_props
            /\ {blocks[b].css_props : b \in 1..Len(blocks)} = {r[2] : r \in Elements(arg.rules)}
            /\ \A b \in 1..Len(blocks) :
                  blocks[b].selectors = SelectorsWith(arg.rules, blocks[b].css_props)

\* C5 witness: a list that pairs one selector with two declarations and holds
\* one pair twice
C5_Witness ==
    /\ call = "generate_usercss"
    /\ \E i, j \in 1..Len(arg.rules) : i # j /\ arg.rules[i] = arg.rules[j]
    /\ \E i, j \in 1..Len(arg.rules) :
          arg.rules[i][1] = arg.rules[j][1] /\ arg.rules[i][2] # arg.rules[j][2]
    /\ Len(BlocksOfText(ret)) = 2

-----------------------------------------------------------------------------
(* The application: an input text, an output folder, and folder save.      *)

\* the input texts of the application
SaveTexts ==
    { <<>>,
      <<" ", "\n">>,
      <<"a", "b", "c">>,
      <<"a", "#", "#", ".", "x">>,
      <<"#", "#", ".", "g">>,
      <<"a", "#", "#", ".", "x", "\n", "#", "#", ".", "g">>,
      WWW \o <<"a", "#", "#", ".", "y", "\n", "a", "#", "#", ".", "x">>,
      WWW \o <<"a", "#", "#", ".", "y", "\n", "a", "#", "#", ".", "x", "\n", "#", "#", ".", "g">>,
      <<"a", ",", "b", "#", "#", ".", "x">> \o STYLE_OPEN \o <<"c", ")">>,
      <<"b", "#", "#", ".", "y", "\n", "a", "#", "#", ".", "x", "\n", "#", "#", ".", "g">>,
      <<"a", "#", "#", ".", "x", "\n", "a", "b", "c", "\n", "|", "|", "b", "\n",
        "a", "#", "#", ".", "x">>,
      <<"a", ",", "#", "#", ".", "x">>,
      <<"b", "#", "#", "\n", "a", "#", "#", ".", "x">>,
      <<"a", "#", "#", ".", "x">> \o STYLE_OPEN \o <<" ", ")">> }

\* parse_filters and the export files of every input text of the application,
\* tabulated
ParsedText == [t \in SaveTexts |-> parse_filters(t)]
JobsOfText == [t \in SaveTexts |-> ExportJobs(ParsedText[t])]

Init ==
    /\ text_input \in SaveTexts
    /\ output_dir \in {PLACEHOLDER, OUT_DIR}
    /\ files = <<>>
    /\ zip_file = NoFile
    /\ json_file = NoFile
    /\ status = <<"Ready", "info">>
    /\ report = NoValue
    /\ call = "none"
    /\ arg = NoValue
    /\ ret = NoValue

\* select_folder, when the dialog returns a folder
SelectFolder ==
    /\ output_dir' = OUT_DIR
    /\ status' = <<"Output folder", "success">>
    /\ call' = "select_folder"
    /\ UNCHANGED <<text_input, files, zip_file, json_file, report, arg, ret>>

\* (mutant: the files are written whatever the output folder variable holds)
ConvertAndSaveAnyFolder ==
    /\ call' = "convert_and_save"
    /\ UNCHANGED <<text_input, output_dir, zip_file, json_file, ret>>
    /\ IF Strip(text_input) = <<>>
       THEN /\ status' = <<"Please paste some uBlock rules first", "warning">>
            /\ UNCHANGED <<files, report, arg>>
       ELSE IF NoRules(ParsedText[text_input])
       THEN /\ status' = <<"No valid ## rules found", "error">>
            /\ UNCHANGED <<files, report, arg>>
       ELSE LET parsed == ParsedText[text_input]
                jobs == JobsOfText[text_input]
            IN  \E outcomes \in [1..Len(jobs) -> WriteOutcomes] :
                   LET done == SaveLoop(files, jobs, outcomes, Len(jobs))
                   IN  /\ files' = done.folder
                       /\ arg' = outcomes
                       /\ report' = [files_created |-> done.files_created,
                                     total_rules |-> done.total_rules,
                                     invalid |-> Len(parsed.invalid_lines),
                                     skipped |-> Len(parsed.skipped_lines)]
                       /\ status' = <<"Created files", "success">>

\* convert_and_save, with the outcome of every write it attempts
ConvertAndSave ==
    /\ call' = "convert_and_save"
    /\ UNCHANGED <<text_input, output_dir, zip_file, json_file, ret>>
    /\ IF Strip(text_input) = <<>>
       THEN /\ status' = <<"Please paste some uBlock rules first", "warning">>
            /\ UNCHANGED <<files, report, arg>>
       ELSE IF output_dir = <<>> \/ output_dir = PLACEHOLDER
       THEN /\ status' = <<"Please select an output folder", "warning">>
            /\ UNCHANGED <<files, report, arg>>
       ELSE IF NoRules(ParsedText[text_input])
       THEN /\ status' = <<"No valid ## rules found", "error">>
            /\ UNCHANGED <<files, report, arg>>
       ELSE LET parsed == ParsedText[text_input]
                jobs == JobsOfText[text_input]
            IN  \E outcomes \in [1..Len(jobs) -> WriteOutcomes] :
                   LET done == SaveLoop(files, jobs, outcomes, Len(jobs))
                   IN  /\ files' = done.folder
                       /\ arg' = outcomes
                       /\ report' = [files_created |-> done.files_created,
                                     total_rules |-> done.total_rules,
                                     invalid |-> Len(parsed.invalid_lines),
                                     skipped |-> Len(parsed.skipped_lines)]
                       /\ status' = <<"Created files", "success">>

Next == SelectFolder \/ ConvertAndSave

Spec == Init /\ [][Next]_vars

-----------------------------------------------------------------------------
(* Folder save with failing writes.                                        *)

\* convert_and_save ran its write loops; arg holds the outcome of every write
SavedBatch == call = "convert_and_save" /\ status = <<"Created files", "success">>

\* the writes of the batch that succeeded
Succeeded == {k \in DOMAIN arg : arg[k].result = "ok"}

RECURSIVE RulesOf(_, _)
RulesOf(jobs, ks) ==
    IF ks = {} THEN 0
    ELSE LET k == CHOOSE x \in ks : TRUE
         IN  jobs[k].rules + RulesOf(jobs, ks \ {k})

\* a write after the k-th that opened the file of the k-th
ReopenedAfter(jobs, k) ==
    \E l \in (k + 1)..Len(jobs) :
        jobs[l].filename = jobs[k].filename /\ arg[l].result # "open_error"

\* a write after the k-th that succeeded on the file of the k-th
RewrittenAfter(jobs, k) ==
    \E l \in (k + 1)..Len(jobs) :
        jobs[l].filename = jobs[k].filename /\ arg[l].result = "ok"

\* the file of the k-th write holds what that write left
HoldsWrite(jobs, k) ==
    /\ jobs[k].filename \in DOMAIN files
    /\ files[jobs[k].filename] =
          (IF arg[k].result = "ok" THEN jobs[k].content
           ELSE SubSeq(jobs[k].content, 1, arg[k].partial))

\* the counts of the status line count exactly the writes that succeeded
CountsSucceeded(jobs) ==
    /\ report.files_created = Cardinality(Succeeded)
    /\ report.total_rules = RulesOf(jobs, Succeeded)

\* C10 (as stated): in folder save a failing write does not stop the batch:
\* the files after it are still written, every file written before a failing
\* write still holds its content at the end of the batch (unless a later
\* write of the batch succeeded on the same file), and the counts reported
\* count exactly the writes that succeeded.
C10_EarlierFilesUnchanged ==
    SavedBatch =>
        LET jobs == JobsOfText[text_input]
        IN  /\ \A j \in DOMAIN arg : \A k \in DOMAIN arg :
                  (arg[j].result # "ok" /\ k # j /\ arg[k].result = "ok"
                      /\ ~RewrittenAfter(jobs, k))
                  => HoldsWrite(jobs, k)
            /\ CountsSucceeded(jobs)

\* C10 (amended): in folder save a failing write does not stop the batch:
\* every write that opened its file, before or after a failing one, leaves
\* in it what it wrote (all of the text when it succeeded) unless a later
\* write of the batch opened the same file name, and the counts reported
\* count exactly the writes that succeeded.
C10_BatchContinuesPastFailure ==
    SavedBatch =>
        LET jobs == JobsOfText[text_input]
        IN  /\ DOMAIN arg = 1..Len(jobs)
            /\ \A k \in DOMAIN arg :
                  (arg[k].result # "open_error" /\ ~ReopenedAfter(jobs, k))
                  => HoldsWrite(jobs, k)
            /\ CountsSucceeded(jobs)

\* a batch of three files whose second write failed: the first and the third
\* file are written and two files are counted
C10_Witness ==
    /\ SavedBatch
    /\ Len(JobsOfText[text_input]) = 3
    /\ arg[1].result = "ok" /\ arg[2].result # "ok" /\ arg[3].result = "ok"
    /\ HoldsWrite(JobsOfText[text_input], 1)
    /\ HoldsWrite(JobsOfText[text_input], 3)
    /\ report.files_created = 2

-----------------------------------------------------------------------------
(* Folder save and its preconditions.                                      *)

\* the trimmed input text is non-empty, an output folder is selected, and
\* parsing yields at least one domain or global rule
SavePreconditions ==
    /\ Strip(text_input) # <<>>
    /\ output_dir # <<>> /\ output_dir # PLACEHOLDER
    /\ AllRules(ParsedText[text_input]) # {}

\* C21: folder save writes no file unless the trimmed input text is
\* non-empty, an output folder is selected (neither the empty path nor the
\* placeholder) and parsing yields at least one rule; when one of the three
\* fails, the operation ends with a warning or error status and every file
\* is as it was before.
C21_NoWriteUnlessPreconditions ==
    [][ (call' = "convert_and_save" /\ ~SavePreconditions)
            => /\ files' = files
               /\ zip_file' = zip_file
               /\ json_file' = json_file
               /\ status'[2] \in {"warning", "error"} ]_vars

\* C21 witness: folder save ran on a text with rules while no folder was
\* selected: the status is the warning and the folder holds no file
C21_Witness ==
    /\ call = "convert_and_save"
    /\ output_dir = PLACEHOLDER
    /\ AllRules(ParsedText[text_input]) # {}
    /\ status = <<"Please select an output folder", "warning">>
    /\ files = <<>>

-----------------------------------------------------------------------------
(* Folder save with colliding file names.                                  *)

EXAMPLE_COM == <<"e", "x", "a", "m", "p", "l", "e", ".", "c", "o", "m">>

\* the path folder save writes the file of a domain key to
PathOf(domain) == sanitize_filename(domain) \o USER_CSS

\* the UserCSS text generated for the i-th key of the domain map
ContentOf(parsed, i) ==
    generate_usercss(parsed.domain_map[i].domain,
                     dedupe_rules(parsed.domain_map[i].rules), FALSE)

\* the keys i < j of the domain map sanitize to the same string
Collide(parsed, i, j) ==
    /\ i < j
    /\ parsed.domain_map[i].domain # parsed.domain_map[j].domain
    /\ sanitize_filename(parsed.domain_map[i].domain)
          = sanitize_filename(parsed.domain_map[j].domain)

\* C18: sanitize("www.example.com") and sanitize("example.com") are both
\* "example.com"; when two distinct domain keys sanitize to the same string,
\* folder save writes both to the same path without detecting it (the status
\* is the success report and both writes are counted), and after the save the
\* file holds the text generated for the key that comes later in the
\* iteration order of the domain map (the writes having succeeded).
C18_LaterDomainOverwrites ==
    /\ sanitize_filename(WWW \o EXAMPLE_COM) = EXAMPLE_COM
    /\ sanitize_filename(EXAMPLE_COM) = EXAMPLE_COM
    /\ SavedBatch =>
          LET parsed == ParsedText[text_input]
          IN  \A i \in 1..Len(parsed.domain_map) : \A j \in 1..Len(parsed.domain_map) :
                 (Collide(parsed, i, j) /\ arg[i].result = "ok" /\ arg[j].result = "ok"
                    /\ \A l \in (j + 1)..Len(parsed.domain_map) : ~Collide(parsed, j, l))
                 => /\ PathOf(parsed.domain_map[i].domain) = PathOf(parsed.domain_map[j].domain)
                    /\ files[PathOf(parsed.domain_map[j].domain)] = ContentOf(parsed, j)
                    /\ Cardinality(DOMAIN files) < Len(arg)
                    /\ report.files_created >= 2

\* C18 witness: the keys "www.a" and "a": two writes are counted, the folder
\* holds one file, and it holds the text of "a", not that of "www.a"
C18_Witness ==
    /\ SavedBatch
    /\ Len(ParsedText[text_input].domain_map) = 2
    /\ Collide(ParsedText[text_input], 1, 2)
    /\ arg[1].result = "ok" /\ arg[2].result = "ok"
    /\ report.files_created = 2
    /\ DOMAIN files = {PathOf(ParsedText[text_input].domain_map[2].domain)}
    /\ files[PathOf(ParsedText[text_input].domain_map[2].domain)]
          = ContentOf(ParsedText[text_input], 2)
    /\ ContentOf(ParsedText[text_input], 1) # ContentOf(ParsedText[text_input], 2)

-----------------------------------------------------------------------------
(* The application: ZIP export and Stylus JSON export.                     *)

\* the clock readings of one export
ClockSamples == {1999999, 2000000}
Clocks(parsed) ==
    {c \in [0..StyleCount(parsed) -> ClockSamples] :
        \A i \in 1..StyleCount(parsed) : c[i - 1] <= c[i]}

\* export_as_zip, with the answer of the file dialog and the outcome of the
\* writes
ExportAsZip ==
    /\ call' = "export_as_zip"
    /\ UNCHANGED <<text_input, output_dir, files, json_file, ret>>
    /\ IF Strip(text_input) = <<>>
       THEN /\ status' = <<"No filters to export", "warning">>
            /\ UNCHANGED <<zip_file, report, arg>>
       ELSE IF NoRules(ParsedText[text_input])
       THEN /\ status' = <<"No valid rules to export", "error">>
            /\ UNCHANGED <<zip_file, report, arg>>
       ELSE \/ /\ arg' = [step |-> "cancelled"]
               /\ UNCHANGED <<zip_file, report, status>>
            \/ \E outcome \in ZipOutcomes(JobsOfText[text_input]) :
                  /\ arg' = outcome
                  /\ zip_file' = ZipWritten(zip_file, JobsOfText[text_input], outcome)
                  /\ IF outcome.step = "none"
                     THEN /\ status' = <<"Exported files to ZIP", "success">>
                          /\ report' = [file_count |-> StyleCount(ParsedText[text_input])]
                     ELSE /\ status' = <<"Export failed", "error">>
                          /\ UNCHANGED report

\* export_as_stylus_json, with the answer of the file dialog, the clock and
\* the outcome of the writes
ExportAsStylusJson ==
    /\ call' = "export_as_stylus_json"
    /\ UNCHANGED <<text_input, output_dir, files, zip_file, ret>>
    /\ IF Strip(text_input) = <<>>
       THEN /\ status' = <<"No filters to export", "warning">>
            /\ UNCHANGED <<json_file, report, arg>>
       ELSE IF NoRules(ParsedText[text_input])
       THEN /\ status' = <<"No valid rules to export", "error">>
            /\ UNCHANGED <<json_file, report, arg>>
       ELSE \/ /\ arg' = [step |-> "cancelled"]
               /\ UNCHANGED <<json_file, report, status>>
            \/ \E clock \in Clocks(ParsedText[text_input]) :
                 LET export == generate_stylus_json(ParsedText[text_input].domain_map,
                                   ParsedText[text_input].global_selectors, clock)
                 IN  \E outcome \in JsonOutcomes(export) :
                        /\ arg' = outcome
                        /\ json_file' = JsonWritten(json_file, export, outcome)
                        /\ IF outcome.step = "none"
                           THEN /\ status' = <<"Exported styles to Stylus JSON", "success">>
                                /\ report' = [style_count |-> StyleCount(ParsedText[text_input])]
                           ELSE /\ status' = <<"Export failed", "error">>
                                /\ UNCHANGED report

NextExport == ExportAsZip \/ ExportAsStylusJson

SpecExport == Init /\ [][NextExport]_vars

-----------------------------------------------------------------------------
(* ZIP export against folder save.                                         *)

\* the input text has rules, so the export went on to its file dialog
HasRules == Strip(text_input) # <<>> /\ ~NoRules(ParsedText[text_input])

\* the folder after convert_and_save wrote every file into an empty folder
SavedFolder(jobs) ==
    SaveLoop(<<>>, jobs, [k \in 1..Len(jobs) |-> [result |-> "ok", partial |-> 0]],
             Len(jobs)).folder

ZipExported == call = "export_as_zip" /\ status = <<"Exported files to ZIP", "success">>

\* C8: the archive of a ZIP export holds the names of the files folder save
\* produces, each name once, and under each name the text of that file, also
\* when two domain keys sanitize to the same name.
C8_ZipHoldsSavedFiles ==
    ZipExported =>
        LET saved == SavedFolder(JobsOfText[text_input])
            entries == zip_file.entries
        IN  /\ {entries[i].filename : i \in DOMAIN entries} = DOMAIN saved
            /\ \A i \in DOMAIN entries : \A j \in DOMAIN entries :
                  entries[i].filename = entries[j].filename => i = j
            /\ \A i \in DOMAIN entries : entries[i].content = saved[entries[i].filename]

\* an archive with two entries of one name and different texts
C8_Witness ==
    /\ ZipExported
    /\ \E i \in DOMAIN zip_file.entries : \E j \in DOMAIN zip_file.entries :
          /\ i < j
          /\ zip_file.entries[i].filename = zip_file.entries[j].filename
          /\ zip_file.entries[i].content # zip_file.entries[j].content
          /\ SavedFolder(JobsOfText[text_input])[zip_file.entries[i].filename]
                = zip_file.entries[j].content

-----------------------------------------------------------------------------
(* Failing exports.                                                        *)

ExportFailed == status = <<"Export failed", "error">>

\* the archive an export of the input text writes when nothing fails
WholeZip ==
    [exists |-> TRUE, entries |-> ZipEntries(JobsOfText[text_input]), closed |-> TRUE]

\* the JSON file holds every element of an export of the input text
WholeJson ==
    /\ json_file.exists
    /\ json_file.complete
    /\ \E clock \in Clocks(ParsedText[text_input]) :
          json_file.items = generate_stylus_json(ParsedText[text_input].domain_map,
                                ParsedText[text_input].global_selectors, clock)

\* C9: when producing the ZIP archive or the JSON file fails (opening the
\* path, writing an entry, closing, serializing) the status is the error
\* report and no partial output file is left: the path holds no file or a
\* whole export.
C9_FailedExportLeavesNoPartialFile ==
    /\ (call = "export_as_zip" /\ HasRules /\ arg.step \in {"open", "write", "close"})
          => (ExportFailed /\ (~zip_file.exists \/ zip_file = WholeZip))
    /\ (call = "export_as_stylus_json" /\ HasRules /\ arg.step \in {"open", "dump"})
          => (ExportFailed /\ (~json_file.exists \/ WholeJson))

\* a failed ZIP export that left an archive without its last entry
C9_Witness ==
    /\ call = "export_as_zip" /\ HasRules /\ arg.step = "write"
    /\ ExportFailed
    /\ zip_file.exists
    /\ Len(zip_file.entries) < Len(JobsOfText[text_input])

-----------------------------------------------------------------------------
(* show_preview, and every path that generates UserCSS.                    *)

PREVIEW_OPEN == "/* === "
PREVIEW_CLOSE == ".user.css === */\n\n"
PREVIEW_MORE == "\n\n/* ... and "
PREVIEW_MORE_END == " more domain files */\n"
PREVIEW_SEP == "\n\n"
PREVIEW_GLOBAL == "/* === Global_Rules.user.css === */\n\n"

\* str(n) of a natural number, digit by digit
RECURSIVE Decimal(_)
Decimal(n) ==
    LET digit == <<"0", "1", "2", "3", "4", "5", "6", "7", "8", "9">>[(n % 10) + 1]
    IN  IF n < 10 THEN <<digit>> ELSE Decimal(n \div 10) \o <<digit>>

\* preview_content: the file of the first domain, then the global file
PreviewContent(parsed) ==
    LET domain_part ==
            IF parsed.domain_map # <<>>
            THEN <<PREVIEW_OPEN>> \o parsed.domain_map[1].domain \o <<PREVIEW_CLOSE>>
                   \o generate_usercss(parsed.domain_map[1].domain,
                                       dedupe_rules(parsed.domain_map[1].rules), FALSE)
                   \o (IF Len(parsed.domain_map) > 1
                       THEN <<PREVIEW_MORE>> \o Decimal(Len(parsed.domain_map) - 1)
                              \o <<PREVIEW_MORE_END>>
                       ELSE <<>>)
            ELSE <<>>
    IN  IF parsed.global_selectors # <<>>
        THEN domain_part \o (IF domain_part # <<>> THEN <<PREVIEW_SEP>> ELSE <<>>)
               \o <<PREVIEW_GLOBAL>>
               \o generate_usercss(GLOBAL_NAME, dedupe_rules(parsed.global_selectors), TRUE)
        ELSE domain_part

\* show_preview: the text put into the preview window
ShowPreview ==
    /\ call' = "show_preview"
    /\ UNCHANGED <<text_input, output_dir, files, zip_file, json_file, arg, ret>>
    /\ IF NoRules(ParsedText[text_input])
       THEN /\ status' = <<"No valid rules to preview", "warning">>
            /\ UNCHANGED report
       ELSE /\ report' = [preview_content |-> PreviewContent(ParsedText[text_input])]
            /\ UNCHANGED status

\* generate_usercss called on its own (no application window, as in
\* InitUserCSS), and the handlers of the application that call it
Standalone == output_dir = <<>>

\* the input texts of the application whose outputs are read back
OutputTexts ==
    { <<"a", "b", "c">>,
      <<"#", "#", ".", "g">>,
      <<"a", ",", "#", "#", ".", "x">>,
      <<"a", "#", "#", ".", "x", "\n", "#", "#", ".", "g">> }

InitOutputs == (Init /\ text_input \in OutputTexts) \/ InitUserCSS

NextOutputs ==
    \/ Standalone /\ GenerateUserCSS
    \/ ~Standalone /\ SelectFolder
    \/ ~Standalone /\ ConvertAndSave
    \/ ~Standalone /\ ExportAsZip
    \/ ~Standalone /\ ShowPreview

SpecOutputs == InitOutputs /\ [][NextOutputs]_vars

-----------------------------------------------------------------------------
(* The @-moz-document wrapper.                                             *)

\* the UserCSS text is the header of this name, then the wrapper opened for
\* this name and closed at the end of the text
Wrapped(text, name) ==
    /\ Len(text) >= 2 * Len(name) + 5
    /\ SubSeq(text, 1, 2 * Len(name) + 4)
          = <<HEADER_NAME>> \o name \o <<HEADER_REST, DOCUMENT_OPEN>> \o name \o <<DOCUMENT_BODY>>
    /\ text[Len(text)] = DOCUMENT_CLOSE

\* the UserCSS text is the header of this name and holds no part of a wrapper
Unwrapped(text, name) ==
    /\ Len(text) >= Len(name) + 2
    /\ SubSeq(text, 1, Len(name) + 2) = <<HEADER_NAME>> \o name \o <<HEADER_REST>>
    /\ \A i \in 1..Len(text) : text[i] \notin {DOCUMENT_OPEN, DOCUMENT_BODY, DOCUMENT_CLOSE}

\* the file generated for job k of the input text is the wrapped file of its
\* domain key, or, for the job after the last domain, the unwrapped file
GeneratedForJob(text, k) ==
    IF k <= Len(ParsedText[text_input].domain_map)
    THEN Wrapped(text, ParsedText[text_input].domain_map[k].domain)
    ELSE Unwrapped(text, GLOBAL_NAME)

\* the two files of a preview text: what stands before and after the title of
\* the global file
PreviewDomainPart(content) ==
    IF PieceAt(content, PREVIEW_GLOBAL) = 0 THEN content
    ELSE SubSeq(content, 1, PieceAt(content, PREVIEW_GLOBAL) - 1)

PreviewGlobalPart(content) ==
    IF PieceAt(content, PREVIEW_GLOBAL) = 0 THEN <<>>
    ELSE SubSeq(content, PieceAt(content, PREVIEW_GLOBAL) + 1, Len(content))

\* the UserCSS text of the domain part of a preview: from its header to the
\* close of its wrapper
PreviewDomainFile(content) ==
    LET part == PreviewDomainPart(content)
    IN  SubSeq(part, PieceAt(part, HEADER_NAME), PieceAt(part, DOCUMENT_CLOSE))

\* C15: generate_usercss wraps the rule blocks in @-moz-document domain("name")
\* iff is_global is false and emits the same blocks unwrapped iff it is true;
\* in folder save, in the ZIP export and in the preview every domain file is
\* generated wrapped, for its own domain key, and the file generated
\* unwrapped is the Global_Rules file only.
C15_WrappedIffNotGlobal ==
    /\ call = "generate_usercss" =>
          /\ Wrapped(ret, arg.name) <=> ~arg.is_global
          /\ Unwrapped(ret, arg.name) <=> arg.is_global
          /\ BodyOfText(ret) = BodyOfText(generate_usercss(arg.name, arg.rules, ~arg.is_global))
    /\ SavedBatch =>
          \A k \in DOMAIN arg :
             (arg[k].result = "ok" /\ ~ReopenedAfter(JobsOfText[text_input], k))
                => /\ GeneratedForJob(files[JobsOfText[text_input][k].filename], k)
                   /\ (JobsOfText[text_input][k].filename = GLOBAL_FILE)
                         \/ k <= Len(ParsedText[text_input].domain_map)
    /\ ZipExported =>
          \A k \in DOMAIN zip_file.entries :
             /\ GeneratedForJob(zip_file.entries[k].content, k)
             /\ (zip_file.entries[k].filename = GLOBAL_FILE)
                   \/ k <= Len(ParsedText[text_input].domain_map)
    /\ (~Standalone /\ call = "show_preview" /\ ~NoRules(ParsedText[text_input])) =>
          LET parsed == ParsedText[text_input]
              content == report.preview_content
          IN  /\ parsed.domain_map # <<>>
                    => Wrapped(PreviewDomainFile(content), parsed.domain_map[1].domain)
              /\ parsed.domain_map = <<>> => PreviewDomainPart(content) = <<>>
              /\ parsed.global_selectors # <<>>
                    => Unwrapped(PreviewGlobalPart(content), GLOBAL_NAME)
              /\ parsed.global_selectors = <<>> => PreviewGlobalPart(content) = <<>>

\* C15 witness: a folder save wrote a wrapped domain file and the unwrapped
\* Global_Rules file, and the preview shows the same two files
C15_Witness ==
    /\ ~Standalone
    /\ call = "show_preview"
    /\ Len(ParsedText[text_input].domain_map) = 1
    /\ ParsedText[text_input].global_selectors # <<>>
    /\ GLOBAL_FILE \in DOMAIN files
    /\ Unwrapped(files[GLOBAL_FILE], GLOBAL_NAME)
    /\ \E f \in DOMAIN files : Wrapped(files[f], ParsedText[text_input].domain_map[1].domain)
    /\ Wrapped(PreviewDomainFile(report.preview_content),
               ParsedText[text_input].domain_map[1].domain)
    /\ Unwrapped(PreviewGlobalPart(report.preview_content), GLOBAL_NAME)

-----------------------------------------------------------------------------
(* generate_stylus_json on its own.                                        *)

MaxKeys == 2         \* keys of a domain map given to generate_stylus_json

StylusKeys == { <<"a">>, WWW \o <<"a">>, <<>> }

\* the lists a key of domain_map can hold: a defaultdict(list) key exists
\* from its first append on, so no list is empty
StylusRuleLists ==
    { << <<<<".", "x">>, HIDE_RULE>> >>,
      << <<<<".", "y">>, <<"c">>>>, <<<<".", "x">>, HIDE_RULE>>, <<<<".", "y">>, <<"c">>>> >> }

\* domain maps of up to MaxKeys distinct keys
StylusDomainMaps ==
    UNION { { [i \in 1..n |-> [domain |-> ks[i], rules |-> rs[i]]] :
                ks \in {f \in [1..n -> StylusKeys] : \A i, j \in 1..n : i # j => f[i] # f[j]},
                rs \in [1..n -> StylusRuleLists] } : n \in 0..MaxKeys }

StylusInputs ==
    UNION { { [domain_map |-> dm, global_selectors |-> g, clock |-> c] :
                c \in Clocks([domain_map |-> dm, global_selectors |-> g]) } :
            dm \in StylusDomainMaps, g \in StylusRuleLists \cup {<<>>} }

InitStylus ==
    /\ text_input = <<>>
    /\ output_dir = <<>>
    /\ files = <<>>
    /\ zip_file = NoFile
    /\ json_file = NoFile
    /\ status = <<"Ready", "info">>
    /\ report = NoValue
    /\ call = "none"
    /\ arg \in StylusInputs
    /\ ret = NoValue

GenerateStylusJson ==
    /\ call' = "generate_stylus_json"
    /\ ret' = generate_stylus_json(arg.domain_map, arg.global_selectors, arg.clock)
    /\ UNCHANGED <<text_input, output_dir, files, zip_file, json_file, status, report, arg>>

NextStylus == GenerateStylusJson

SpecStylus == InitStylus /\ [][NextStylus]_vars

\* the element is a style entry
IsStyleEntry(x) == DOMAIN x = {"enabled", "installDate", "name", "sections",
                               "updateDate", "uuid", "rev", "id"}

\* C16: generate_stylus_json returns a list whose first element is the fixed
\* settings object, followed by exactly |domain_map| + (1 if global_selectors
\* is non-empty, else 0) style entries: one per key of domain_map in
\* iteration order, then the global entry last when there are global rules.
C16_SettingsThenOneEntryPerKey ==
    call = "generate_stylus_json" =>
        LET n == Len(arg.domain_map)
            g == IF arg.global_selectors # <<>> THEN 1 ELSE 0
        IN  /\ Len(ret) = 1 + n + g
            /\ ret[1] = SETTINGS_OBJ
            /\ \A i \in 2..Len(ret) : IsStyleEntry(ret[i])
            /\ \A i \in 1..n :
                  /\ ret[i + 1].name = arg.domain_map[i].domain
                  /\ Len(ret[i + 1].sections) = 1
                  /\ ret[i + 1].sections[1].code
                        = CssCode(arg.domain_map[i].domain,
                                  dedupe_rules(arg.domain_map[i].rules), FALSE)
            /\ g = 1 =>
                  /\ ret[Len(ret)].name = GLOBAL_STYLE_NAME
                  /\ Len(ret[Len(ret)].sections) = 1
                  /\ ret[Len(ret)].sections[1].code
                        = CssCode(GLOBAL_STYLE_NAME, dedupe_rules(arg.global_selectors), TRUE)

\* C16 witness: two domain keys and global rules give the settings object and
\* three style entries, the global one last
C16_Witness ==
    /\ call = "generate_stylus_json"
    /\ Len(arg.domain_map) = 2
    /\ arg.global_selectors # <<>>
    /\ Len(ret) = 4
    /\ ret[1] = SETTINGS_OBJ
    /\ ret[2].name = arg.domain_map[1].domain
    /\ ret[3].name = arg.domain_map[2].domain
    /\ ret[4].name = GLOBAL_STYLE_NAME

\* C17: the single section of the entry of every domain key carries the list
\* domains = [domain, "www." + domain] when the key does not start with
\* "www.", and [domain] when it does; the section of the global entry has no
\* domains field.
C17_DomainsOfEverySection ==
    call = "generate_stylus_json" =>
        /\ \A i \in 1..Len(arg.domain_map) :
              LET domain == arg.domain_map[i].domain
              IN  /\ Len(ret[i + 1].sections) = 1
                  /\ DOMAIN ret[i + 1].sections[1] = {"code", "domains"}
                  /\ ret[i + 1].sections[1].domains =
                        (IF StartsWith(domain, WWW) THEN <<domain>>
                         ELSE <<domain, WWW \o domain>>)
        /\ arg.global_selectors # <<>> => DOMAIN ret[Len(ret)].sections[1] = {"code"}

\* C17 witness: a key that starts with "www.", a key that does not, and
\* global rules
C17_Witness ==
    /\ call = "generate_stylus_json"
    /\ Len(arg.domain_map) = 2
    /\ arg.global_selectors # <<>>
    /\ StartsWith(arg.domain_map[1].domain, WWW)
    /\ ~StartsWith(arg.domain_map[2].domain, WWW)
    /\ Len(ret[2].sections[1].domains) = 1
    /\ Len(ret[3].sections[1].domains) = 2
    /\ DOMAIN ret[4].sections[1] = {"code"}

-----------------------------------------------------------------------------
(* Everything generated from the domain map.                               *)

\* the input texts of the application whose generated outputs are read back
GeneratedTexts ==
    { <<"a", "b", "c">>,
      <<"#", "#", ".", "g">>,
      <<"b", "#", "#", "\n", "a", "#", "#", ".", "x">>,
      <<"a", "#", "#", ".", "x">> \o STYLE_OPEN \o <<" ", ")">> }

\* parse_filters called on its own (no application window, as in InitParse),
\* and the handlers of the application that generate from its result
InitGenerated == (Init /\ text_input \in GeneratedTexts) \/ InitParse

NextGenerated ==
    \/ Standalone /\ ParseFilters
    \/ ~Standalone /\ SelectFolder
    \/ ~Standalone /\ ConvertAndSave
    \/ ~Standalone /\ ExportAsZip
    \/ ~Standalone /\ ExportAsStylusJson

SpecGenerated == InitGenerated /\ [][NextGenerated]_vars

\* the rule blocks of the code of a style entry section, read back from the
\* text: what follows its comment line
CodeBlocks(code) ==
    LET start == IF code[1] = RULES_CONVERTED THEN 1 ELSE PieceAt(code, RULES_FOR_END)
        body == SubSeq(code, start + 1, Len(code))
    IN  IF body = <<>> THEN <<>>
        ELSE LET parts == Split(body, <<BLOCK_SEP>>)
             IN  [i \in 1..Len(parts) |-> ReadBlock(parts[i])]

\* a text read back as rule blocks has at least one, each with a selector
HasRuleBody(blocks) ==
    /\ blocks # <<>>
    /\ \A i \in 1..Len(blocks) :
          blocks[i].selectors # <<>> /\ blocks[i].selectors[1] # <<>>

\* every key of the domain map has a rule, and is a token of a line that
\* yielded a rule
KeysHaveRules(lines, p) ==
    \A i \in 1..Len(p.domain_map) :
        /\ p.domain_map[i].rules # <<>>
        /\ \E k \in RuleLines(lines, p) : \E t \in 1..Len(TokensOf(lines[k])) :
              /\ DomainsPartOf(lines[k]) # <<>>
              /\ TokensOf(lines[k])[t] = p.domain_map[i].domain

JsonExported ==
    call = "export_as_stylus_json" /\ status = <<"Exported styles to Stylus JSON", "success">>

\* C22: after parse_filters every key of domain_map maps to a list with at
\* least one Rule (a line that ends up invalid or skipped creates no key), so
\* every file folder save writes, every entry of a ZIP export and every style
\* entry of a JSON export holds at least one rule block.
C22_NoKeyWithoutRuleNoEmptyOutput ==
    /\ call = "parse_filters" => KeysHaveRules(InputLines(text_input), ret)
    /\ SavedBatch =>
          \A k \in Succeeded :
              ~ReopenedAfter(JobsOfText[text_input], k) =>
                  HasRuleBody(BlocksOfText(files[JobsOfText[text_input][k].filename]))
    /\ ZipExported =>
          /\ Len(zip_file.entries) >= Len(ParsedText[text_input].domain_map)
          /\ \A i \in 1..Len(zip_file.entries) :
                HasRuleBody(BlocksOfText(zip_file.entries[i].content))
    /\ JsonExported =>
          /\ Len(json_file.items) = 1 + StyleCount(ParsedText[text_input])
          /\ \A i \in 2..Len(json_file.items) :
                HasRuleBody(CodeBlocks(json_file.items[i].sections[1].code))

\* the input "b##\na##.x": its first line has the domain b and an empty
\* selector; the domain map has the key a alone
C22_WitnessParse ==
    /\ call = "parse_filters"
    /\ \E k \in 1..Len(InputLines(text_input)) :
          /\ InvalidAs(InputLines(text_input), k, "Empty selector")
          /\ DomainsPartOf(InputLines(text_input)[k]) # <<>>
          /\ \A i \in 1..Len(ret.domain_map) :
                ret.domain_map[i].domain # DomainsPartOf(InputLines(text_input)[k])
    /\ ret.domain_map # <<>>

\* C22 witness: for the same input, folder save, ZIP export and JSON export
\* each produced one output, for the key a
C22_Witness ==
    /\ text_input = <<"b", "#", "#", "\n", "a", "#", "#", ".", "x">>
    /\ KeysOf(ParsedText[text_input].domain_map) = << <<"a">> >>
    /\ DOMAIN files = {<<"a">> \o USER_CSS}
    /\ files[<<"a">> \o USER_CSS] = JobsOfText[text_input][1].content
    /\ HasRuleBody(BlocksOfText(files[<<"a">> \o USER_CSS]))
    /\ zip_file.exists /\ zip_file.closed /\ Len(zip_file.entries) = 1
    /\ json_file.exists /\ json_file.complete /\ Len(json_file.items) = 2
    /\ json_file.items[2].name = <<"a">>

=============================================================================
